---------------------------- MODULE Spec2Model ----------------------------
(***************************************************************************)
(* Rule-template expansion and CIDR aggregation engine of dimonb/vpn       *)
(* (cfgapp/src/utils.py, cfgapp/src/processor.py).                         *)
(*                                                                         *)
(* Several specifications share the module:                                *)
(*   SpecDedupe   IPProcessor.dedupe_lines applied to bounded line lists   *)
(*   SpecCompact  NetworkCompactor.compact_networks, one loop step at a    *)
(*                time                                                     *)
(*   Spec         TemplateProcessor.process_template with its concurrent   *)
(*                RULE-SET and NETSET fetches                              *)
(*   SpecOneTask  process_template on the templates of one directive       *)
(*   SpecCover    ipv4_cover_blocks and ipv6_cidr_to_blocks, one call      *)
(*   SpecNetset   netset_expand, one call                                  *)
(*   SpecParse    parse_template, one call                                 *)
(*   SpecRules    expand_rule_set on a body without NETSET markers, one    *)
(*                call                                                     *)
(*   SpecConfigured  expand_netset and netset_expand under the settings of *)
(*                config.py, one call                                      *)
(*   SpecBlockPrefix netset_expand with a chosen IPv6 block prefix, one    *)
(*                call                                                     *)
(*   SpecSupernet find_minimal_supernet, one call                          *)
(*   SpecCompactFair compact_networks under weak fairness of its steps     *)
(*   SpecOneTaskFair process_template under weak fairness of its steps     *)
(* Each specification leaves the variables of the others at their idle     *)
(* values.                                                                 *)
(***************************************************************************)
EXTENDS Integers, Sequences, FiniteSets, TLC

VARIABLES
    dd_pc,       \* dedupe driver: "idle" | "start" | "once" | "twice"
    dd_lines,    \* the list handed to dedupe_lines
    dd_once,     \* dedupe_lines(dd_lines)
    dd_twice,    \* dedupe_lines(dd_once)
    c_pc,        \* compact_networks: "idle" | "start" | "while" | "scan" | "check" | "done"
    c_cidrs,     \* its argument cidrs (the parsed networks)
    c_target,    \* its argument target_max
    c_minp,      \* its argument min_prefix
    c_nets,      \* its local nets, a list of networks
    c_ti,        \* index into thresholds of the for loop (1-based)
    c_i,         \* its local i, the scan index (0-based as in the code)
    c_changed,   \* its local changed
    t_pc,        \* process_template: "idle" | "start" | "gather" | "done" | "raised"
    t_tpl,       \* its argument tpl_text, as the list of its lines
    t_tasks,     \* tasks of parse_template
    t_passthrough, \* passthrough of parse_template
    t_rule,      \* per task: the expand_rule_set coroutine
    t_jobs,      \* per task: its expand_netset coroutines
    t_finished,  \* the tasks in the order their coroutines finished
    t_output,    \* final_output, the lines that are joined and returned
    f_pc,        \* one call of a function: "idle" | "call" | "returned" | "raised" | "hung"
    f_args,      \* the function called and its arguments
    f_ret        \* what it returned

dvars == <<dd_pc, dd_lines, dd_once, dd_twice>>
cvars == <<c_pc, c_cidrs, c_target, c_minp, c_nets, c_ti, c_i, c_changed>>
tvars == <<t_pc, t_tpl, t_tasks, t_passthrough, t_rule, t_jobs, t_finished, t_output>>

fvars == <<f_pc, f_args, f_ret>>

vars == <<dvars, cvars, tvars, fvars>>

\* The values a specification gives to the variables it does not use.
IdleDedupe == dd_pc = "idle" /\ dd_lines = <<>> /\ dd_once = <<>> /\ dd_twice = <<>>

IdleCompact ==
    /\ c_pc = "idle" /\ c_cidrs = {} /\ c_target = 0 /\ c_minp = 0
    /\ c_nets = <<>> /\ c_ti = 0 /\ c_i = 0 /\ c_changed = FALSE

IdleTemplate ==
    /\ t_pc = "idle" /\ t_tpl = <<>> /\ t_tasks = <<>> /\ t_passthrough = <<>>
    /\ t_rule = <<>> /\ t_jobs = <<>> /\ t_finished = <<>> /\ t_output = <<>>

IdleCall == f_pc = "idle" /\ f_args = <<>> /\ f_ret = <<>>

-----------------------------------------------------------------------------
(* Text.  A line of text is a sequence of tokens; a token stands for one   *)
(* character or one run of characters that the code never looks inside.    *)
(* Every token is a record of the same shape so that any two lines can be  *)
(* compared: k is the text (or the token class), a and l carry the address *)
(* and prefix length of a CIDR token and are 0 otherwise.                  *)

Tok(s) == [k |-> s, a |-> 0, l |-> 0]

\* The lines of a list of token-strings: Ln(<<"a", " ">>) is the line "a ".
Ln(ss) == [i \in 1..Len(ss) |-> Tok(ss[i])]

\* Characters that str.strip() removes (those that can occur inside a line
\* obtained by split("\n")).
Whitespace == {" ", "\t", "\r"}

IsWs(t) == t.k \in Whitespace

RECURSIVE lstrip(_)
lstrip(line) ==
    IF line # <<>> /\ IsWs(Head(line)) THEN lstrip(Tail(line)) ELSE line

RECURSIVE rstrip(_)
rstrip(line) ==
    IF line # <<>> /\ IsWs(line[Len(line)])
    THEN rstrip(SubSeq(line, 1, Len(line) - 1))
    ELSE line

\* str.strip(): leading and trailing whitespace removed, the inside kept.
strip(line) == rstrip(lstrip(line))

-----------------------------------------------------------------------------
(* IPProcessor.dedupe_lines: the loop over the lines with its seen set.    *)

\* A slip that swaps line and key: membership and seen hold the raw line,
\* the output holds the trimmed key.
RECURSIVE dedupe_loop_swapped(_, _, _, _)
dedupe_loop_swapped(lines, i, seen, out) ==
    IF i > Len(lines) THEN out
    ELSE LET line == lines[i]
             key  == strip(line)
         IN  IF key # <<>> /\ line \notin seen
             THEN dedupe_loop_swapped(lines, i + 1, seen \cup {line}, Append(out, key))
             ELSE dedupe_loop_swapped(lines, i + 1, seen, out)

\* A slip that forgets the trim: the key is the raw line.
RECURSIVE dedupe_loop_raw(_, _, _, _)
dedupe_loop_raw(lines, i, seen, out) ==
    IF i > Len(lines) THEN out
    ELSE LET line == lines[i]
             key  == line
         IN  IF key # <<>> /\ key \notin seen
             THEN dedupe_loop_raw(lines, i + 1, seen \cup {key}, Append(out, line))
             ELSE dedupe_loop_raw(lines, i + 1, seen, out)

RECURSIVE dedupe_loop(_, _, _, _)
dedupe_loop(lines, i, seen, out) ==
    IF i > Len(lines) THEN out
    ELSE LET line == lines[i]
             key  == strip(line)
         IN  IF key # <<>> /\ key \notin seen
             THEN dedupe_loop(lines, i + 1, seen \cup {key}, Append(out, line))
             ELSE dedupe_loop(lines, i + 1, seen, out)

\* A pass that drops the blank lines and keeps every repeat.
RECURSIVE dedupe_lines_keeping_repeats(_)
dedupe_lines_keeping_repeats(lines) ==
    IF lines = <<>> THEN <<>>
    ELSE (IF strip(Head(lines)) # <<>> THEN <<Head(lines)>> ELSE <<>>)
         \o dedupe_lines_keeping_repeats(Tail(lines))

dedupe_lines(lines) == dedupe_loop(lines, 1, {}, <<>>)

-----------------------------------------------------------------------------
(* Networks.  An ipaddress.IPv4Network is its network address (an integer) *)
(* and its prefix length.  TLC's integers are 32-bit signed, so an IPv4    *)
(* address is held without its last octet: addresses, and every count of   *)
(* addresses (num_addresses, the cost of a merge, the thresholds), are in  *)
(* units of 2^UnitBits = 256 addresses.  This is exact for the networks of *)
(* prefix length at most MaxPrefix = 24, the ones the model draws: all     *)
(* their addresses, sizes and differences are multiples of 256, and        *)
(* x <= broadcast (which ends in .255) holds of a multiple x of 256 iff it *)
(* holds of the units.  The 32-bit wrap (& 0xFFFFFFFF) is % AddressSpace.  *)

MaxBits == 32

UnitBits == 8

MaxPrefix == MaxBits - UnitBits

AddressSpace == 2 ^ MaxPrefix

Net(a, l) == [addr |-> a, len |-> l]

\* Optional[...] None of find_minimal_supernet.
None == [addr |-> -1, len |-> -1]

num_addresses(n) == 2 ^ (MaxPrefix - n.len)

network_address(n) == n.addr

broadcast_address(n) == n.addr + (num_addresses(n) - 1)

\* x & ~(size - 1) for size a power of two.
FloorTo(x, size) == x - (x % size)

\* _BaseNetwork.subnet_of: a lies inside b.
subnet_of(a, b) ==
    /\ network_address(b) <= network_address(a)
    /\ broadcast_address(b) >= broadcast_address(a)

\* _BaseNetwork.supernet(): one bit shorter; a /0 is its own supernet.
supernet(n) ==
    IF n.len = 0 THEN n
    ELSE Net(FloorTo(n.addr, 2 ^ (MaxPrefix - (n.len - 1))), n.len - 1)

\* The order of sorted() on networks: by network address, then by netmask.
NetBefore(a, b) == a.addr < b.addr \/ (a.addr = b.addr /\ a.len < b.len)

RECURSIVE SortedNets(_)
SortedNets(S) ==
    IF S = {} THEN <<>>
    ELSE LET m == CHOOSE x \in S : \A y \in S \ {x} : NetBefore(x, y)
         IN  <<m>> \o SortedNets(S \ {m})

\* First loop of _collapse_addresses_internal: two distinct networks with the
\* same supernet are replaced by it, until none is left.
RECURSIVE merge_siblings(_)
merge_siblings(S) ==
    IF \E a, b \in S : a # b /\ supernet(a) = supernet(b)
    THEN LET p == CHOOSE q \in S \X S : q[1] # q[2] /\ supernet(q[1]) = supernet(q[2])
         IN  merge_siblings((S \ {p[1], p[2]}) \cup {supernet(p[1])})
    ELSE S

\* Second loop of _collapse_addresses_internal: in sorted order, a network
\* that ends no later than the last one yielded is skipped.
RECURSIVE skip_subsumed(_, _, _)
skip_subsumed(sorted, last, out) ==
    IF sorted = <<>> THEN out
    ELSE LET net == Head(sorted)
         IN  IF last # None /\ broadcast_address(last) >= broadcast_address(net)
             THEN skip_subsumed(Tail(sorted), last, out)
             ELSE skip_subsumed(Tail(sorted), net, Append(out, net))

Range(f) == { f[i] : i \in DOMAIN f }

\* A collapse that rounds every network up to its supernet first.
collapse_addresses_rounding_up(S) ==
    skip_subsumed(SortedNets(merge_siblings({ supernet(n) : n \in S })), None, <<>>)

\* ipaddress.collapse_addresses on a collection of networks.
collapse_addresses(S) == skip_subsumed(SortedNets(merge_siblings(S)), None, <<>>)

-----------------------------------------------------------------------------
(* CIDR text.  A CIDR written in a netset is one token: k is "cidr4" or    *)
(* "cidr6", a the address as written (host bits may be set) and l the      *)
(* prefix length.  "bad4" and "bad6" are texts that match RE_IPV4_CIDR or  *)
(* RE_IPV6_CIDR and that ipaddress rejects ("300.1.1.0/24", "2001::/129"). *)
(* "cidr6h" is an IPv6 CIDR that ipaddress accepts and RE_IPV6_CIDR does   *)
(* not match, its address not ending with ':' ("2001:db8::1/128").         *)
(* An IPv6 address is held in units of 2^V6UnitBits addresses (its first   *)
(* 32 bits; the model draws IPv6 addresses whose other bits are zero).     *)
(* The one exception is "cidr6t": the address a with the bit of weight     *)
(* 2^TailShift set as well, written with a closing "::" so that            *)
(* RE_IPV6_CIDR matches it ("2001:db8:0:0:0:0:1::/128").  "cidr6ts" is     *)
(* what str() makes of such an address ("2001:db8::1:0/128"): it does not  *)
(* end with ':' and RE_IPV6_CIDR does not match it.                        *)

Cidr4(a, l) == [k |-> "cidr4", a |-> a, l |-> l]
Cidr6(a, l) == [k |-> "cidr6", a |-> a, l |-> l]
Cidr6Host(a, l) == [k |-> "cidr6h", a |-> a, l |-> l]
Cidr6Tail(a, l) == [k |-> "cidr6t", a |-> a, l |-> l]
Cidr6TailStr(a, l) == [k |-> "cidr6ts", a |-> a, l |-> l]
Bad4 == Tok("bad4")
Bad6 == Tok("bad6")

MaxBits6 == 128

V6UnitBits == 96

\* The low bit of a "cidr6t" address: the last bit of its seventh group.
TailShift == 16

\* settings.ipv4_block_prefix and settings.ipv6_block_prefix (defaults).
ipv4_block_prefix == 18
ipv6_block_prefix == 32

\* x with its low hostbits bits cleared, x being in units of 2^unitbits.
\* x is below 2^31, so clearing 31 bits or more of it leaves 0.
ClearHostBits(x, hostbits, unitbits) ==
    IF hostbits <= unitbits THEN x
    ELSE IF hostbits - unitbits >= 31 THEN 0
    ELSE FloorTo(x, 2 ^ (hostbits - unitbits))

\* What a function that may raise or never return hands back: raised is an
\* exception leaving it, diverges a loop that never ends.
Returned(v) == [raised |-> FALSE, diverges |-> FALSE, value |-> v]
Raised      == [raised |-> TRUE,  diverges |-> FALSE, value |-> <<>>]
Diverges    == [raised |-> FALSE, diverges |-> TRUE,  value |-> <<>>]

\* The while loop of ipv4_cover_blocks (lines 92-101).  The cursor advances
\* modulo 2^32.  When an advance wraps, the cursor restarts at 0 and climbs
\* back to the block it wrapped from, which is <= end_addr, and wraps again:
\* the loop never ends (next <= cursor is an advance that wrapped).
RECURSIVE cover_loop(_, _, _, _, _)
cover_loop(cursor, end_addr, block_size, target, blocks) ==
    IF ~ (cursor <= end_addr) THEN Returned(blocks)
    ELSE LET next == (cursor + block_size) % AddressSpace
         IN  IF next <= cursor THEN Diverges
             ELSE cover_loop(next, end_addr, block_size, target,
                             Append(blocks, Cidr4(cursor, target)))

\* A cursor that starts at the network address without being floored.
ipv4_cover_blocks_unfloored(cidr, target) ==
    IF cidr.k = "bad4" THEN Raised
    ELSE LET network == Net(ClearHostBits(cidr.a, MaxBits - cidr.l, UnitBits), cidr.l)
         IN  IF network.len = target
             THEN Returned(<<Cidr4(network_address(network), target)>>)
             ELSE cover_loop(network_address(network), broadcast_address(network),
                             2 ^ (MaxPrefix - target), target, <<>>)

\* IPProcessor.ipv4_cover_blocks with self.ipv4_block_prefix = target.
ipv4_cover_blocks(cidr, target) ==
    IF cidr.k = "bad4" THEN Raised
    ELSE LET network == Net(ClearHostBits(cidr.a, MaxBits - cidr.l, UnitBits), cidr.l)
         IN  IF network.len = target
             THEN Returned(<<Cidr4(network_address(network), target)>>)
             ELSE LET start_addr == network_address(network)
                      end_addr   == broadcast_address(network)
                      block_size == 2 ^ (MaxPrefix - target)
                      cursor     == FloorTo(start_addr, block_size)
                  IN  cover_loop(cursor, end_addr, block_size, target, <<>>)

\* A floor that is applied to nothing: the network address is kept.
ipv6_cidr_to_blocks_unfloored(cidr, target) ==
    IF cidr.k = "bad6" THEN Raised
    ELSE Returned(<<Cidr6(ClearHostBits(cidr.a, MaxBits6 - cidr.l, V6UnitBits), target)>>)

\* IPProcessor.ipv6_cidr_to_blocks with self.ipv6_block_prefix = target.
ipv6_cidr_to_blocks(cidr, target) ==
    IF cidr.k = "bad6" THEN Raised
    ELSE LET network_addr == ClearHostBits(cidr.a, MaxBits6 - cidr.l, V6UnitBits)
             \* whether the low bit of a "cidr6t" address is among the
             \* network bits, and then among the bits the floor keeps
             tail         == cidr.k = "cidr6t" /\ MaxBits6 - cidr.l <= TailShift
             floored_tail == tail /\ MaxBits6 - target <= TailShift
         IN  IF cidr.l = target
             THEN Returned(<<IF tail THEN Cidr6TailStr(network_addr, target)
                                     ELSE Cidr6(network_addr, target)>>)
             ELSE LET floored_addr ==
                          ClearHostBits(network_addr, MaxBits6 - target, V6UnitBits)
                  IN  Returned(<<IF floored_tail THEN Cidr6TailStr(floored_addr, target)
                                                 ELSE Cidr6(floored_addr, target)>>)

\* Tokens whose text begins with the character '#'.
HashLed ==
    { "#", "#NETSET", "#netset", "# RULE-SET,", "# RULE-SET fetch failed: ",
      "# NETSET fetch failed: ", "# NETSET error: " }

startswith_hash(line) == line # <<>> /\ Head(line).k \in HashLed

\* The same substitution without re.IGNORECASE.
strip_ip_prefix_case_sensitive(line) ==
    IF Len(line) >= 2 /\ line[1].k = "IP" /\ IsWs(line[2])
    THEN lstrip(Tail(line))
    ELSE line

\* re.sub(r"^IP\s+", "", line, flags=re.IGNORECASE)
strip_ip_prefix(line) ==
    IF Len(line) >= 2 /\ line[1].k \in {"IP", "ip"} /\ IsWs(line[2])
    THEN lstrip(Tail(line))
    ELSE line

\* RE_IPV6_CIDR.match / RE_IPV4_CIDR.match: the line is one CIDR text.
\* RE_IPV6_CIDR wants a ':' right before the '/'.
matches_ipv6_cidr(line) == Len(line) = 1 /\ line[1].k \in {"cidr6", "cidr6t", "bad6"}
matches_ipv4_cidr(line) == Len(line) = 1 /\ line[1].k \in {"cidr4", "bad4"}

\* "IP-CIDR,<block><suffix>": block is a sequence of tokens.
ip_cidr_line(block, suffix) == <<Tok("IP-CIDR"), Tok(",")>> \o block \o suffix

RECURSIVE ip_cidr_lines(_, _)
ip_cidr_lines(blocks, suffix) ==
    IF blocks = <<>> THEN <<>>
    ELSE <<ip_cidr_line(<<Head(blocks)>>, suffix)>> \o ip_cidr_lines(Tail(blocks), suffix)

\* The for loop of netset_expand (lines 165-191): out after the lines from
\* position i on, or the exception or endless loop of ipv4_cover_blocks.
RECURSIVE netset_loop(_, _, _, _, _, _)
netset_loop(lines, i, suffix, p4, p6, out) ==
    IF i > Len(lines) THEN Returned(out)
    ELSE LET stripped == strip(lines[i])
             line     == strip_ip_prefix(stripped)
         IN  IF stripped = <<>> \/ startswith_hash(stripped) \/ Head(stripped).k = ";"
             THEN netset_loop(lines, i + 1, suffix, p4, p6, out)
             ELSE IF matches_ipv6_cidr(line)
             THEN LET blocks == ipv6_cidr_to_blocks(line[1], p6)
                  IN  IF blocks.raised
                      THEN netset_loop(lines, i + 1, suffix, p4, p6,
                                       Append(out, ip_cidr_line(line, suffix)))
                      ELSE netset_loop(lines, i + 1, suffix, p4, p6,
                                       out \o ip_cidr_lines(blocks.value, suffix))
             ELSE IF matches_ipv4_cidr(line)
             THEN LET blocks4 == ipv4_cover_blocks(line[1], p4)
                  IN  IF blocks4.raised \/ blocks4.diverges THEN blocks4
                      ELSE netset_loop(lines, i + 1, suffix, p4, p6,
                                       out \o ip_cidr_lines(blocks4.value, suffix))
             ELSE netset_loop(lines, i + 1, suffix, p4, p6, out)

\* netset_expand(text, suffix, ipv4_block_prefix, ipv6_block_prefix) as
\* expand_netset calls it: enable_compaction is left at its default False, so
\* the result is the deduplicated out (lines 193-200).  text is the list of
\* its lines, text.split("\n").
netset_expand(text, suffix, p4, p6) ==
    LET r == netset_loop(text, 1, suffix, p4, p6, <<>>)
    IN  IF r.raised \/ r.diverges THEN r ELSE Returned(dedupe_lines(r.value))

-----------------------------------------------------------------------------
(* Rule lists and templates (processor.py).  The text of a URL is a run of *)
(* tokens without whitespace.                                              *)

ActionTokens == {"PROXY", "DIRECT", "REJECT", "proxy", "direct", "reject"}

IsHash(t) == t.k \in HashLed

\* str.find("#"): the 1-based position of the first token that begins with
\* '#', 0 when there is none (the code's -1).
RECURSIVE find_hash(_, _)
find_hash(line, i) ==
    IF i > Len(line) THEN 0
    ELSE IF IsHash(line[i]) THEN i ELSE find_hash(line, i + 1)

\* re.sub(r"\s+,", ",", trimmed): whitespace right before a comma goes.
RECURSIVE drop_ws_before_comma(_)
drop_ws_before_comma(line) ==
    IF line = <<>> THEN <<>>
    ELSE IF IsWs(Head(line))
         THEN LET rest == lstrip(line)
                  run  == SubSeq(line, 1, Len(line) - Len(rest))
              IN  IF rest # <<>> /\ Head(rest).k = ","
                  THEN drop_ws_before_comma(rest)
                  ELSE run \o drop_ws_before_comma(rest)
         ELSE <<Head(line)>> \o drop_ws_before_comma(Tail(line))

\* re.sub(r",\s+", ",", trimmed): whitespace right after a comma goes.
RECURSIVE drop_ws_after_comma(_)
drop_ws_after_comma(line) ==
    IF line = <<>> THEN <<>>
    ELSE IF Head(line).k = ","
         THEN <<Head(line)>> \o drop_ws_after_comma(lstrip(Tail(line)))
         ELSE <<Head(line)>> \o drop_ws_after_comma(Tail(line))

normalize_commas(line) == drop_ws_after_comma(drop_ws_before_comma(line))

\* The same search without re.IGNORECASE.
ends_with_action_case_sensitive(line) ==
    LET t == rstrip(line)
    IN  Len(t) >= 2 /\ t[Len(t)].k \in {"PROXY", "DIRECT", "REJECT"} /\ t[Len(t) - 1].k = ","

\* re.search(r",(PROXY|DIRECT|REJECT)\s*$", trimmed, re.IGNORECASE)
ends_with_action(line) ==
    LET t == rstrip(line)
    IN  Len(t) >= 2 /\ t[Len(t)].k \in ActionTokens /\ t[Len(t) - 1].k = ","

\* Lines 133-149: one rule line, already known not to be blank or a comment.
rewrite_rule(trimmed0, suffix) ==
    LET hash_pos == find_hash(trimmed0, 1)
        trimmed1 == IF hash_pos # 0 THEN strip(SubSeq(trimmed0, 1, hash_pos - 1))
                    ELSE trimmed0
        trimmed2 == normalize_commas(trimmed1)
    IN  IF ends_with_action(trimmed2)
        THEN LET t == rstrip(trimmed2) IN SubSeq(t, 1, Len(t) - 2) \o suffix
        ELSE trimmed2 \o suffix

\* Lines 124-151: the output list after the rules of the body.
RECURSIVE rules_loop(_, _, _, _)
rules_loop(lines, i, suffix, output) ==
    IF i > Len(lines) THEN output
    ELSE LET trimmed == strip(lines[i])
         IN  IF trimmed = <<>> \/ startswith_hash(trimmed)
             THEN rules_loop(lines, i + 1, suffix, output)
             ELSE rules_loop(lines, i + 1, suffix,
                             Append(output, rewrite_rule(trimmed, suffix)))

rule_set_header(url) == <<Tok("# RULE-SET,")>> \o url

\* The first run of tokens without whitespace.
RECURSIVE non_ws_run(_)
non_ws_run(line) ==
    IF line = <<>> \/ IsWs(Head(line)) THEN <<>>
    ELSE <<Head(line)>> \o non_ws_run(Tail(line))

\* NETSET_RE.match(line): r"^#NETSET\s+(\S+)", case-insensitive.
netset_match(line) ==
    /\ Len(line) >= 3
    /\ line[1].k \in {"#NETSET", "#netset"}
    /\ IsWs(line[2])
    /\ lstrip(Tail(line)) # <<>>

netset_group1(line) == non_ws_run(lstrip(Tail(line)))

\* Lines 114-120: the NETSET URLs of a body, in order of appearance.
RECURSIVE netset_urls_of(_, _)
netset_urls_of(lines, i) ==
    IF i > Len(lines) THEN <<>>
    ELSE LET line == strip(lines[i])
         IN  IF netset_match(line)
             THEN <<netset_group1(line)>> \o netset_urls_of(lines, i + 1)
             ELSE netset_urls_of(lines, i + 1)

\* The first run of tokens that are neither a comma nor whitespace.
RECURSIVE url_run(_)
url_run(line) ==
    IF line = <<>> \/ IsWs(Head(line)) \/ Head(line).k = "," THEN <<>>
    ELSE <<Head(line)>> \o url_run(Tail(line))

\* RULE_RE.match(raw_line):
\*   ^\s*RULE-SET\s*,\s*([^,\s]+)\s*,\s*([^#]+?)\s*(?:#.*)?$
\* After the second comma, group 2 is the text up to the first '#' without its
\* surrounding whitespace; when nothing but whitespace precedes the '#' or the
\* end, the regex backtracks and group 2 is the last whitespace character.
NoMatch == [ok |-> FALSE, url |-> <<>>, rest |-> <<>>]

\* A group 2 that runs to the end of the line, the comment included.
rule_match_with_comment(raw_line) ==
    LET l1 == lstrip(raw_line)
    IN  IF l1 = <<>> \/ Head(l1).k \notin {"RULE-SET", "rule-set"} THEN NoMatch
        ELSE
    LET l2 == lstrip(Tail(l1))
    IN  IF l2 = <<>> \/ Head(l2).k # "," THEN NoMatch
        ELSE
    LET l3  == lstrip(Tail(l2))
        url == url_run(l3)
        l4  == lstrip(SubSeq(l3, Len(url) + 1, Len(l3)))
    IN  IF url = <<>> \/ l4 = <<>> \/ Head(l4).k # "," THEN NoMatch
        ELSE
    LET r     == Tail(l4)
        r1    == lstrip(r)
        ws0   == SubSeq(r, 1, Len(r) - Len(r1))
    IN  IF r1 # <<>> /\ ~ IsHash(Head(r1))
        THEN [ok |-> TRUE, url |-> url, rest |-> rstrip(r1)]
        ELSE IF ws0 # <<>>
        THEN [ok |-> TRUE, url |-> url, rest |-> <<ws0[Len(ws0)]>>]
        ELSE NoMatch

rule_match(raw_line) ==
    LET l1 == lstrip(raw_line)
    IN  IF l1 = <<>> \/ Head(l1).k \notin {"RULE-SET", "rule-set"} THEN NoMatch
        ELSE
    LET l2 == lstrip(Tail(l1))
    IN  IF l2 = <<>> \/ Head(l2).k # "," THEN NoMatch
        ELSE
    LET l3  == lstrip(Tail(l2))
        url == url_run(l3)
        l4  == lstrip(SubSeq(l3, Len(url) + 1, Len(l3)))
    IN  IF url = <<>> \/ l4 = <<>> \/ Head(l4).k # "," THEN NoMatch
        ELSE
    LET r     == Tail(l4)
        r1    == lstrip(r)
        ws0   == SubSeq(r, 1, Len(r) - Len(r1))
        hash  == find_hash(r1, 1)
        upto  == IF hash = 0 THEN r1 ELSE SubSeq(r1, 1, hash - 1)
    IN  IF r1 # <<>> /\ ~ IsHash(Head(r1))
        THEN [ok |-> TRUE, url |-> url, rest |-> rstrip(upto)]
        ELSE IF ws0 # <<>>
        THEN [ok |-> TRUE, url |-> url, rest |-> <<ws0[Len(ws0)]>>]
        ELSE NoMatch

\* The entry of passthrough at a directive line (Python's None).
NoLine == <<[k |-> "None", a |-> -1, l |-> -1]>>

\* TemplateProcessor.parse_template: the tasks and the passthrough list of
\* the lines from position i on (index is 0-based as in the code).
RECURSIVE parse_tasks(_, _)
parse_tasks(lines, i) ==
    IF i > Len(lines) THEN <<>>
    ELSE LET m == rule_match(lines[i])
         IN  IF ~ m.ok THEN parse_tasks(lines, i + 1)
             ELSE <<[index |-> i - 1, url |-> strip(m.url),
                     suffix |-> <<Tok(",")>> \o strip(m.rest)]>>
                  \o parse_tasks(lines, i + 1)

parse_passthrough(lines) ==
    [i \in 1..Len(lines) |-> IF rule_match(lines[i]).ok THEN NoLine ELSE lines[i]]

-----------------------------------------------------------------------------
(* SpecDedupe: dedupe_lines over every list of at most MaxDedupeLines      *)
(* lines drawn from DedupeAlphabet.                                        *)

MaxDedupeLines == 4

DedupeAlphabet ==
    { Ln(<<>>), Ln(<<" ">>), Ln(<<"a">>), Ln(<<" ", "a">>), Ln(<<"a", "\t">>),
      Ln(<<"b">>), Ln(<<"a", " ", "b">>), Ln(<<"\r", "a", " ", "b">>) }

SeqsUpTo(S, n) == UNION { [1..m -> S] : m \in 0..n }

InitDedupe ==
    /\ dd_pc = "start"
    /\ dd_lines \in SeqsUpTo(DedupeAlphabet, MaxDedupeLines)
    /\ dd_once = <<>>
    /\ dd_twice = <<>>
    /\ IdleCompact
    /\ IdleTemplate
    /\ IdleCall

DedupeOnce ==
    /\ dd_pc = "start"
    /\ dd_once' = dedupe_lines(dd_lines)
    /\ dd_pc' = "once"
    /\ UNCHANGED <<dd_lines, dd_twice, cvars, tvars, fvars>>

DedupeTwice ==
    /\ dd_pc = "once"
    /\ dd_twice' = dedupe_lines(dd_once)
    /\ dd_pc' = "twice"
    /\ UNCHANGED <<dd_lines, dd_once, cvars, tvars, fvars>>

NextDedupe == DedupeOnce \/ DedupeTwice

SpecDedupe == InitDedupe /\ [][NextDedupe]_vars

-----------------------------------------------------------------------------
(* Properties of dedupe_lines (checked under SpecDedupe).                  *)

\* C9: dedupe_lines is idempotent: applying it to its own result changes
\* nothing, dedupe_lines(dedupe_lines(L)) = dedupe_lines(L).
C9_DedupeIdempotent == dd_pc = "twice" => dd_twice = dd_once

\* A list on which the first application dropped lines and kept at least two
\* has been deduplicated twice.
C9_Witness ==
    /\ dd_pc = "twice"
    /\ Len(dd_once) >= 2
    /\ Len(dd_once) < Len(dd_lines)
    /\ \E i, j \in 1..Len(dd_lines) :
          i < j /\ dd_lines[i] # dd_lines[j] /\ strip(dd_lines[i]) = strip(dd_lines[j])

\* Positions of the input that hold the first element with their trimmed
\* value, blank-after-trim elements excluded.
FirstPositions(L) ==
    { i \in 1..Len(L) :
        /\ strip(L[i]) # <<>>
        /\ \A j \in 1..(i - 1) : strip(L[j]) # strip(L[i]) }

\* The k-th smallest member of a set of positions.
KthPosition(F, k) == CHOOSE i \in F : Cardinality({ j \in F : j <= i }) = k

\* C10: the result is the subsequence of the input made of the first element
\* of each distinct non-blank trimmed value, in input order and untrimmed;
\* blank-after-trim elements are dropped and elements differing only in
\* surrounding whitespace are duplicates.
C10_DedupeFirstOccurrence ==
    dd_pc \in {"once", "twice"} =>
        LET F == FirstPositions(dd_lines)
        IN  /\ Len(dd_once) = Cardinality(F)
            /\ \A k \in 1..Len(dd_once) : dd_once[k] = dd_lines[KthPosition(F, k)]

\* An input holding a blank-after-trim line that is not empty, two distinct
\* lines equal after trimming, and a kept line that is not already trimmed.
C10_Witness ==
    /\ dd_pc = "once"
    /\ \E k \in 1..Len(dd_lines) : dd_lines[k] # <<>> /\ strip(dd_lines[k]) = <<>>
    /\ \E i, j \in 1..Len(dd_lines) :
          i < j /\ dd_lines[i] # dd_lines[j] /\ strip(dd_lines[i]) = strip(dd_lines[j])
    /\ \E k \in 1..Len(dd_once) : strip(dd_once[k]) # dd_once[k]

-----------------------------------------------------------------------------
(* NetworkCompactor.find_minimal_supernet.                                 *)

\* A slip that drops both coverage tests: the first candidate is returned
\* whether or not it reaches the highest address.
RECURSIVE supernet_scan_unchecked(_, _, _, _)
supernet_scan_unchecked(nets, min_addr, max_addr, prefix_len) ==
    IF prefix_len > MaxPrefix THEN None
    ELSE Net(FloorTo(min_addr, 2 ^ (MaxPrefix - prefix_len)), prefix_len)

\* A scan that prefers the longest prefix whose block holds the group: it
\* looks at the longer prefixes before it accepts the present one.
RECURSIVE supernet_scan_tightest(_, _, _, _)
supernet_scan_tightest(nets, min_addr, max_addr, prefix_len) ==
    IF prefix_len > MaxPrefix THEN None
    ELSE LET size      == 2 ^ (MaxPrefix - prefix_len)
             base      == FloorTo(min_addr, size)
             candidate == Net(base, prefix_len)
             longer    == supernet_scan_tightest(nets, min_addr, max_addr, prefix_len + 1)
         IN  IF longer # None THEN longer
             ELSE IF /\ base + (size - 1) >= max_addr
                     /\ \A k \in 1..Len(nets) : subnet_of(nets[k], candidate)
                  THEN candidate
                  ELSE None

\* The for loop over range(min_prefix, max_bits + 1).  A candidate longer
\* than /MaxPrefix is smaller than the smallest network of the model and
\* fails the test of line 325, so the scan ends with None there.
RECURSIVE supernet_scan(_, _, _, _)
supernet_scan(nets, min_addr, max_addr, prefix_len) ==
    IF prefix_len > MaxPrefix THEN None
    ELSE LET size      == 2 ^ (MaxPrefix - prefix_len)
             base      == FloorTo(min_addr, size)
             candidate == Net(base, prefix_len)
         IN  IF /\ base + (size - 1) >= max_addr
                /\ \A k \in 1..Len(nets) : subnet_of(nets[k], candidate)
             THEN candidate
             ELSE supernet_scan(nets, min_addr, max_addr, prefix_len + 1)

SetMin(S) == CHOOSE x \in S : \A y \in S : x <= y
SetMax(S) == CHOOSE x \in S : \A y \in S : x >= y

find_minimal_supernet(nets, min_prefix) ==
    IF nets = <<>> THEN None
    ELSE supernet_scan(nets,
                       SetMin({ network_address(nets[k]) : k \in 1..Len(nets) }),
                       SetMax({ broadcast_address(nets[k]) : k \in 1..Len(nets) }),
                       min_prefix)

\* NetworkCompactor.verify_coverage: the originals no compacted network
\* covers (the second component of its result; the first is its emptiness).
not_covered(original, compacted) ==
    { o \in original :
        ~ \E k \in 1..Len(compacted) : subnet_of(o, compacted[k]) \/ o = compacted[k] }

verify_coverage(original, compacted) == not_covered(original, compacted) = {}

-----------------------------------------------------------------------------
(* NetworkCompactor.compact_networks, one step of its loops at a time.     *)

\* The thresholds of line 383, in addresses and in units.
thresholds_in_addresses == <<1048576, 2097152, 4194304, 8388608, 16777216>>

\* A threshold list cut after its second entry.
thresholds_truncated ==
    [t \in 1..2 |-> thresholds_in_addresses[t] \div (2 ^ UnitBits)]

thresholds ==
    [t \in 1..Len(thresholds_in_addresses) |-> thresholds_in_addresses[t] \div (2 ^ UnitBits)]

\* sorted(nets, key=network address): a stable insertion sort.
RECURSIVE insert_by_address(_, _)
insert_by_address(sorted, n) ==
    IF sorted = <<>> THEN <<n>>
    ELSE IF network_address(sorted[Len(sorted)]) <= network_address(n)
         THEN Append(sorted, n)
         ELSE Append(insert_by_address(SubSeq(sorted, 1, Len(sorted) - 1), n),
                     sorted[Len(sorted)])

RECURSIVE sort_by_address(_)
sort_by_address(nets) ==
    IF nets = <<>> THEN <<>>
    ELSE insert_by_address(sort_by_address(SubSeq(nets, 1, Len(nets) - 1)), nets[Len(nets)])

\* A slip that keeps the second network of the pair when merging
\* (nets[i + 1:] for nets[i + 2:]) and skips the re-collapse.
merged_list_without_collapse(nets, i, super) ==
    SubSeq(nets, 1, i) \o <<super>> \o SubSeq(nets, i + 2, Len(nets))

\* nets[:i] + [supernet] + nets[i + 2:], then collapse_addresses.
merged_list(nets, i, super) ==
    collapse_addresses(
        Range(SubSeq(nets, 1, i) \o <<super>> \o SubSeq(nets, i + 3, Len(nets))))

\* The supernet of the pair at the scan index, and the cost of merging it.
pair_supernet == find_minimal_supernet(<<c_nets[c_i + 1], c_nets[c_i + 2]>>, c_minp)

pair_cost ==
    num_addresses(pair_supernet)
        - num_addresses(c_nets[c_i + 1]) - num_addresses(c_nets[c_i + 2])

\* Lines 368-379: parse, collapse, and return at once when already within
\* target_max; otherwise enter the threshold loop at its first threshold.
CollapseInput ==
    /\ c_pc = "start"
    /\ LET collapsed == collapse_addresses(c_cidrs)
       IN  /\ c_nets' = collapsed
           /\ IF Len(collapsed) <= c_target
              THEN c_pc' = "done" /\ c_ti' = c_ti /\ c_changed' = c_changed
              ELSE c_pc' = "while" /\ c_ti' = 1 /\ c_changed' = TRUE
    /\ UNCHANGED <<c_cidrs, c_target, c_minp, c_i, dvars, tvars, fvars>>

\* A slip that leaves changed set when a pass begins (line 389 dropped).
PassBegin_keeping_changed ==
    /\ c_pc = "while"
    /\ c_changed /\ Len(c_nets) > c_target
    /\ c_changed' = c_changed
    /\ c_nets' = sort_by_address(c_nets)
    /\ c_i' = 0
    /\ c_pc' = "scan"
    /\ UNCHANGED <<c_cidrs, c_target, c_minp, c_ti, dvars, tvars, fvars>>

\* Lines 388-394: the while condition holds; a pass begins.
PassBegin ==
    /\ c_pc = "while"
    /\ c_changed /\ Len(c_nets) > c_target
    /\ c_changed' = FALSE
    /\ c_nets' = sort_by_address(c_nets)
    /\ c_i' = 0
    /\ c_pc' = "scan"
    /\ UNCHANGED <<c_cidrs, c_target, c_minp, c_ti, dvars, tvars, fvars>>

\* Line 388: the while condition fails; the threshold's loop is over.
PassesOver ==
    /\ c_pc = "while"
    /\ ~ (c_changed /\ Len(c_nets) > c_target)
    /\ c_pc' = "check"
    /\ UNCHANGED <<c_cidrs, c_target, c_minp, c_nets, c_ti, c_i, c_changed, dvars, tvars, fvars>>

\* Lines 395-415: the pair has a supernet within the threshold and is merged;
\* the scan index stays.
ScanMerge ==
    /\ c_pc = "scan"
    /\ c_i < Len(c_nets) - 1 /\ Len(c_nets) > c_target
    /\ pair_supernet # None
    /\ pair_cost <= thresholds[c_ti]
    /\ c_nets' = merged_list(c_nets, c_i, pair_supernet)
    /\ c_changed' = TRUE
    /\ UNCHANGED <<c_pc, c_cidrs, c_target, c_minp, c_ti, c_i, dvars, tvars, fvars>>

\* Lines 417-420: no supernet, or one that costs too much: next pair.
ScanAdvance ==
    /\ c_pc = "scan"
    /\ c_i < Len(c_nets) - 1 /\ Len(c_nets) > c_target
    /\ \/ pair_supernet = None
       \/ pair_supernet # None /\ pair_cost > thresholds[c_ti]
    /\ c_i' = c_i + 1
    /\ UNCHANGED <<c_pc, c_cidrs, c_target, c_minp, c_nets, c_ti, c_changed, dvars, tvars, fvars>>

\* Line 395: the scan condition fails; back to the while condition.
ScanOver ==
    /\ c_pc = "scan"
    /\ ~ (c_i < Len(c_nets) - 1 /\ Len(c_nets) > c_target)
    /\ c_pc' = "while"
    /\ UNCHANGED <<c_cidrs, c_target, c_minp, c_nets, c_ti, c_i, c_changed, dvars, tvars, fvars>>

\* Lines 422-424: target reached, break.
TargetReached ==
    /\ c_pc = "check"
    /\ Len(c_nets) <= c_target
    /\ c_pc' = "done"
    /\ UNCHANGED <<c_cidrs, c_target, c_minp, c_nets, c_ti, c_i, c_changed, dvars, tvars, fvars>>

\* Line 385: the next threshold, with changed set again.
NextThreshold ==
    /\ c_pc = "check"
    /\ Len(c_nets) > c_target
    /\ c_ti < Len(thresholds)
    /\ c_ti' = c_ti + 1
    /\ c_changed' = TRUE
    /\ c_pc' = "while"
    /\ UNCHANGED <<c_cidrs, c_target, c_minp, c_nets, c_i, dvars, tvars, fvars>>

\* Lines 385, 426: the thresholds are exhausted; return nets.
ThresholdsExhausted ==
    /\ c_pc = "check"
    /\ Len(c_nets) > c_target
    /\ c_ti = Len(thresholds)
    /\ c_pc' = "done"
    /\ UNCHANGED <<c_cidrs, c_target, c_minp, c_nets, c_ti, c_i, c_changed, dvars, tvars, fvars>>

(* SpecCompact: compact_networks on every set of at most MaxCidrs networks *)
(* of CandidateNets (the /11, /12 and /13 networks inside 10.0.0.0/10),    *)
(* every target_max from -1 to MaxCidrs and every min_prefix of            *)
(* MinPrefixChoices.  collapse_addresses sorts what it is given and drops  *)
(* repeats, so the order and repetition of cidrs do not reach c_nets and   *)
(* the argument is held as a set.                                          *)

MaxCidrs == 3

CandidateNets ==
    UNION { { Net(167772160 \div (2 ^ UnitBits) + k * 2 ^ (MaxPrefix - p), p) :
                k \in 0..(2 ^ (p - 10) - 1) } :
            p \in 11..13 }

MinPrefixChoices == {6, 10, 11, 12, 13}

TargetChoices == (-1)..MaxCidrs

InitCompact ==
    /\ c_pc = "start"
    /\ c_cidrs \in { S \in SUBSET CandidateNets : Cardinality(S) <= MaxCidrs }
    /\ c_target \in TargetChoices
    /\ c_minp \in MinPrefixChoices
    /\ c_nets = <<>> /\ c_ti = 0 /\ c_i = 0 /\ c_changed = FALSE
    /\ IdleDedupe
    /\ IdleTemplate
    /\ IdleCall

NextCompact ==
    \/ CollapseInput
    \/ PassBegin
    \/ PassesOver
    \/ ScanMerge
    \/ ScanAdvance
    \/ ScanOver
    \/ TargetReached
    \/ NextThreshold
    \/ ThresholdsExhausted

SpecCompact == InitCompact /\ [][NextCompact]_vars

-----------------------------------------------------------------------------
(* NetworkCompactor.compact_networks as a function of its arguments, for   *)
(* the callers that use its value.  ths is the list of thresholds in the   *)
(* unit of the addresses.                                                  *)

\* Lines 395-420: the scan of one pass from index i (0-based) on.
RECURSIVE compact_scan(_, _, _, _, _, _)
compact_scan(nets, i, target_max, min_prefix, threshold, changed) ==
    IF i < Len(nets) - 1 /\ Len(nets) > target_max
    THEN LET net1  == nets[i + 1]
             net2  == nets[i + 2]
             super == find_minimal_supernet(<<net1, net2>>, min_prefix)
             cost  == num_addresses(super) - num_addresses(net1) - num_addresses(net2)
         IN  IF super # None /\ cost <= threshold
             THEN compact_scan(merged_list(nets, i, super), i, target_max, min_prefix,
                               threshold, TRUE)
             ELSE compact_scan(nets, i + 1, target_max, min_prefix, threshold, changed)
    ELSE [nets |-> nets, changed |-> changed]

\* Lines 388-420: the passes of one threshold.
RECURSIVE compact_while(_, _, _, _, _)
compact_while(nets, target_max, min_prefix, threshold, changed) ==
    IF changed /\ Len(nets) > target_max
    THEN LET pass == compact_scan(sort_by_address(nets), 0, target_max, min_prefix,
                                  threshold, FALSE)
         IN  compact_while(pass.nets, target_max, min_prefix, threshold, pass.changed)
    ELSE nets

\* Lines 385-424: the thresholds from index ti on.
RECURSIVE compact_for(_, _, _, _, _)
compact_for(nets, target_max, min_prefix, ths, ti) ==
    IF ti > Len(ths) THEN nets
    ELSE LET after == compact_while(nets, target_max, min_prefix, ths[ti], TRUE)
         IN  IF Len(after) <= target_max THEN after
             ELSE compact_for(after, target_max, min_prefix, ths, ti + 1)

\* cidrs is the set of the parsed networks.
compact_networks(cidrs, target_max, min_prefix, ths) ==
    LET nets == collapse_addresses(cidrs)
    IN  IF Len(nets) <= target_max THEN nets
        ELSE compact_for(nets, target_max, min_prefix, ths, 1)

-----------------------------------------------------------------------------
(* IPProcessor._apply_compaction and IPProcessor.netset_expand with the    *)
(* settings of the constructor (cfg).  An IPv6 network is handed to the    *)
(* compactor in units of 2^V6UnitBits addresses: a /l network of IPv6 has  *)
(* the size of a /(l - V6PrefixShift) network of the Networks section, and *)
(* every threshold of line 383 is below one unit.                          *)

V6PrefixShift == (MaxBits6 - V6UnitBits) - MaxPrefix

thresholds6 == [t \in 1..Len(thresholds_in_addresses) |-> 0]

\* line[8:] without the suffix (lines 221-223).
cidr_of_line(line, suffix) ==
    LET cidr == SubSeq(line, 3, Len(line))
        n    == Len(cidr) - Len(suffix)
    IN  IF suffix # <<>> /\ n >= 0 /\ SubSeq(cidr, n + 1, Len(cidr)) = suffix
        THEN SubSeq(cidr, 1, n)
        ELSE cidr

startswith_ip_cidr(line) ==
    Len(line) >= 2 /\ line[1].k = "IP-CIDR" /\ line[2].k = ","

\* Lines 218-232: "4", "6" or "other".
family_of_line(line, suffix) ==
    IF ~ startswith_ip_cidr(line) THEN "other"
    ELSE IF matches_ipv4_cidr(cidr_of_line(line, suffix)) THEN "4"
    ELSE IF matches_ipv6_cidr(cidr_of_line(line, suffix)) THEN "6"
    ELSE "other"

RECURSIVE lines_of_family(_, _, _)
lines_of_family(lines, suffix, family) ==
    IF lines = <<>> THEN <<>>
    ELSE (IF family_of_line(Head(lines), suffix) = family THEN <<Head(lines)>> ELSE <<>>)
         \o lines_of_family(Tail(lines), suffix, family)

\* ipaddress.IPv4Network(c) / IPv6Network(c), strict: host bits are an error.
parses_strictly(tok) ==
    /\ tok.k \in {"cidr4", "cidr6"}
    /\ IF tok.k = "cidr4"
       THEN ClearHostBits(tok.a, MaxBits - tok.l, UnitBits) = tok.a
       ELSE ClearHostBits(tok.a, MaxBits6 - tok.l, V6UnitBits) = tok.a

cidrs_of_family(lines, suffix, family) ==
    LET sel == lines_of_family(lines, suffix, family)
    IN  [i \in 1..Len(sel) |-> cidr_of_line(sel[i], suffix)[1]]

net_of_cidr(tok) ==
    IF tok.k = "cidr4" THEN Net(tok.a, tok.l) ELSE Net(tok.a, tok.l - V6PrefixShift)

nets_of_cidrs(cidrs) == { net_of_cidr(cidrs[i]) : i \in 1..Len(cidrs) }

block_lines4(nets, suffix) ==
    [i \in 1..Len(nets) |-> ip_cidr_line(<<Cidr4(nets[i].addr, nets[i].len)>>, suffix)]

block_lines6(nets, suffix) ==
    [i \in 1..Len(nets) |->
        ip_cidr_line(<<Cidr6(nets[i].addr, nets[i].len + V6PrefixShift)>>, suffix)]

\* IPProcessor._apply_compaction (lines 201-262).  compact_networks of an
\* empty list is the empty list, as the branches of lines 237 and 249 give.
apply_compaction(lines, suffix, cfg) ==
    LET cidrs4 == cidrs_of_family(lines, suffix, "4")
        cidrs6 == cidrs_of_family(lines, suffix, "6")
        other  == lines_of_family(lines, suffix, "other")
    IN  IF \E i \in 1..Len(cidrs4) : ~ parses_strictly(cidrs4[i]) THEN Raised
        ELSE IF \E i \in 1..Len(cidrs6) : ~ parses_strictly(cidrs6[i]) THEN Raised
        ELSE LET v4 == compact_networks(nets_of_cidrs(cidrs4), cfg.compact_target_max,
                                        cfg.compact_min_prefix_v4, thresholds)
                 v6 == compact_networks(nets_of_cidrs(cidrs6), cfg.compact_target_max,
                                        cfg.compact_min_prefix_v6 - V6PrefixShift,
                                        thresholds6)
             IN  Returned(other \o block_lines4(v4, suffix) \o block_lines6(v6, suffix))

\* IPProcessor.netset_expand (lines 147-200) of a processor built with cfg.
processor_netset_expand(text, suffix, cfg) ==
    LET out == netset_expand(text, suffix, cfg.ipv4_block_prefix, cfg.ipv6_block_prefix)
    IN  IF out.raised \/ out.diverges THEN out
        ELSE IF cfg.enable_compaction THEN apply_compaction(out.value, suffix, cfg)
        ELSE out

-----------------------------------------------------------------------------
(* Properties of compact_networks (checked under SpecCompact).             *)

\* C1: coverage.  After the initial collapse, after every merge step and on
\* return, every input network is a subnet of, or equal to, one network of
\* the current list: verify_coverage(cidrs, nets) is true.
C1_CoverageInvariant ==
    c_pc \in {"while", "scan", "check", "done"} => verify_coverage(c_cidrs, c_nets)

\* compact_networks has returned after merging at the second threshold or
\* later: the list is shorter than the input and holds a network that was
\* not given.
C1_Witness ==
    /\ c_pc = "done"
    /\ c_ti >= 2
    /\ Len(c_nets) < Cardinality(c_cidrs)
    /\ \E k \in 1..Len(c_nets) : c_nets[k] \notin c_cidrs /\ c_nets[k].len = c_minp

\* C2: min_prefix is a hard floor.  When every input network has a prefix
\* length of at least min_prefix, no returned network has a shorter one.
C2_MinPrefixFloor ==
    (c_pc = "done" /\ \A c \in c_cidrs : c.len >= c_minp)
        => \A k \in 1..Len(c_nets) : c_nets[k].len >= c_minp

-----------------------------------------------------------------------------
(* TemplateProcessor: expand_netset, expand_rule_set, process_template.    *)
(* A reply is what a fetch ends with: a transport error raised by          *)
(* http_client.get ("transport"), a response with a non-success status     *)
(* ("status", with its status code as text) or a successful response with  *)
(* its text as a list of lines ("ok").                                     *)

NoReply == [kind |-> "pending", code |-> "", text |-> <<>>]
TransportError == [kind |-> "transport", code |-> "", text |-> <<>>]
StatusReply(code) == [kind |-> "status", code |-> code, text |-> <<>>]
OkReply(text) == [kind |-> "ok", code |-> "200", text |-> text]

\* A slip that reports a non-success status like an exception.
netset_fetch_failed_as_error(url, code) ==
    Returned(<< <<Tok("# NETSET error: ")>> \o url >>)

\* Line 61: [f"# NETSET fetch failed: {url_str} ({response.status_code})"]
netset_fetch_failed(url, code) ==
    Returned(<< <<Tok("# NETSET fetch failed: ")>> \o url
                \o <<Tok(" ("), Tok(code), Tok(")")>> >>)

\* expand_netset without its try/except: the exception leaves the coroutine.
netset_error_unhandled(url) == Raised

\* Lines 75-77: except Exception, [f"# NETSET error: {url_str}"]
netset_error(url) == Returned(<< <<Tok("# NETSET error: ")>> \o url >>)

\* expand_netset(url_str, suffix) once its fetch has ended with reply.
expand_netset(url, suffix, reply) ==
    IF reply.kind = "transport" THEN netset_error(url)
    ELSE IF reply.kind = "status" THEN netset_fetch_failed(url, reply.code)
    ELSE LET expanded == netset_expand(reply.text, suffix,
                                       ipv4_block_prefix, ipv6_block_prefix)
         IN  IF expanded.diverges THEN Diverges
             ELSE IF expanded.raised THEN netset_error(url)
             ELSE expanded

\* expand_rule_set without its try/except.
rule_set_failed_unhandled(url) == Raised

\* A slip that emits the header before the failure comment.
rule_set_failed_with_header(url) ==
    Returned(<<rule_set_header(url), <<Tok("# RULE-SET fetch failed: ")>> \o url>>)

\* Lines 166-169: except Exception, [f"# RULE-SET fetch failed: {url}"]
rule_set_failed(url) == Returned(<< <<Tok("# RULE-SET fetch failed: ")>> \o url >>)

RECURSIVE Flatten(_)
Flatten(lists) == IF lists = <<>> THEN <<>> ELSE Head(lists) \o Flatten(Tail(lists))

\* A rule loop that is skipped when the body holds a NETSET marker.
rule_set_output_skipping_rules(url, suffix, body) ==
    IF netset_urls_of(body, 1) # <<>> THEN <<rule_set_header(url)>>
    ELSE rules_loop(body, 1, suffix, <<rule_set_header(url)>>)

\* Lines 122-151: output before the NETSET results.
rule_set_output(url, suffix, body) == rules_loop(body, 1, suffix, <<rule_set_header(url)>>)

\* asyncio.gather handing the results back in the order the coroutines
\* finished instead of the order they were passed.
gather_in_completion_order(rule, finished) ==
    [k \in 1..Len(rule) |-> rule[finished[k]].result]

\* asyncio.gather (line 182): the results in the order of the awaitables.
gather_results(rule, finished) == [k \in 1..Len(rule) |-> rule[k].result]

\* A merge loop that stops one line early (range(original_line_count - 1)).
RECURSIVE merge_loop_short(_, _, _, _, _, _)
merge_loop_short(tasks, expansions, passthrough, count, i, output) ==
    IF i >= count - 1 THEN output
    ELSE LET ks == { k \in 1..Len(tasks) : tasks[k].index = i }
         IN  IF ks # {}
             THEN merge_loop_short(tasks, expansions, passthrough, count, i + 1,
                                   output \o expansions[SetMax(ks)])
             ELSE merge_loop_short(tasks, expansions, passthrough, count, i + 1,
                                   Append(output, IF passthrough[i + 1] = NoLine THEN <<>>
                                                  ELSE passthrough[i + 1]))

\* Lines 191-198: task_by_index and the loop over range(original_line_count);
\* passthrough[i] or "" turns None into the empty line.
RECURSIVE merge_loop(_, _, _, _, _, _)
merge_loop(tasks, expansions, passthrough, count, i, output) ==
    IF i >= count THEN output
    ELSE LET ks == { k \in 1..Len(tasks) : tasks[k].index = i }
         IN  IF ks # {}
             THEN merge_loop(tasks, expansions, passthrough, count, i + 1,
                             output \o expansions[SetMax(ks)])
             ELSE merge_loop(tasks, expansions, passthrough, count, i + 1,
                             Append(output, IF passthrough[i + 1] = NoLine THEN <<>>
                                            ELSE passthrough[i + 1]))

\* A synchronous loop that never ends holds the event loop: nothing else runs.
Hung == \E k \in 1..Len(t_jobs) : \E j \in 1..Len(t_jobs[k]) : t_jobs[k][j].st = "hung"

StateOf(r) == IF r.diverges THEN "hung" ELSE IF r.raised THEN "raised" ELSE "done"

\* Lines 175-187: parse the template and start one expand_rule_set per task.
ParseTemplate ==
    /\ t_pc = "start"
    /\ LET tasks == parse_tasks(t_tpl, 1)
       IN  /\ t_tasks' = tasks
           /\ t_passthrough' = parse_passthrough(t_tpl)
           /\ t_rule' = [k \in 1..Len(tasks) |->
                           [st |-> "fetching", reply |-> NoReply, output |-> <<>>,
                            urls |-> <<>>, result |-> <<>>]]
           /\ t_jobs' = [k \in 1..Len(tasks) |-> <<>>]
    /\ t_pc' = "gather"
    /\ UNCHANGED <<t_tpl, t_finished, t_output, dvars, cvars, fvars>>

\* expand_rule_set, lines 110-151 and 164-169: the fetch of task k ends with
\* reply.  A failed fetch raises inside the try; a body without NETSET
\* markers is returned deduplicated; otherwise one expand_netset per marker
\* is started (lines 153-158).
RuleFetchCompletes(k, reply) ==
    /\ t_pc = "gather" /\ ~ Hung
    /\ t_rule[k].st = "fetching"
    /\ LET url    == t_tasks[k].url
           suffix == t_tasks[k].suffix
           urls   == netset_urls_of(reply.text, 1)
           output == rule_set_output(url, suffix, reply.text)
           failed == rule_set_failed(url)
       IN  IF reply.kind # "ok"
           THEN /\ t_rule' = [t_rule EXCEPT ![k] =
                                [@ EXCEPT !.st = StateOf(failed), !.reply = reply,
                                          !.result = failed.value]]
                /\ t_finished' = Append(t_finished, k)
                /\ t_jobs' = t_jobs
           ELSE IF urls = <<>>
           THEN /\ t_rule' = [t_rule EXCEPT ![k] =
                                [@ EXCEPT !.st = "done", !.reply = reply,
                                          !.output = output,
                                          !.result = dedupe_lines(output)]]
                /\ t_finished' = Append(t_finished, k)
                /\ t_jobs' = t_jobs
           ELSE /\ t_rule' = [t_rule EXCEPT ![k] =
                                [@ EXCEPT !.st = "netsets", !.reply = reply,
                                          !.output = output, !.urls = urls]]
                /\ t_jobs' = [t_jobs EXCEPT ![k] =
                                [j \in 1..Len(urls) |->
                                    [st |-> "fetching", reply |-> NoReply,
                                     result |-> <<>>]]]
                /\ t_finished' = t_finished
    /\ UNCHANGED <<t_pc, t_tpl, t_tasks, t_passthrough, t_output, dvars, cvars, fvars>>

\* expand_netset, lines 54-77: the fetch of NETSET job j of task k ends.
NetsetFetchCompletes(k, j, reply) ==
    /\ t_pc = "gather" /\ ~ Hung
    /\ t_rule[k].st = "netsets"
    /\ t_jobs[k][j].st = "fetching"
    /\ LET r == expand_netset(t_rule[k].urls[j], t_tasks[k].suffix, reply)
       IN  t_jobs' = [t_jobs EXCEPT ![k][j] =
                        [st |-> StateOf(r), reply |-> reply, result |-> r.value]]
    /\ UNCHANGED <<t_pc, t_tpl, t_tasks, t_passthrough, t_rule, t_finished, t_output,
                   dvars, cvars, fvars>>

\* A gather whose results come back last job first.
NetsetsGathered_last_first(k) ==
    /\ t_pc = "gather" /\ ~ Hung
    /\ t_rule[k].st = "netsets"
    /\ LET jobs   == t_jobs[k]
           raised == \E j \in 1..Len(jobs) : jobs[j].st = "raised"
           failed == rule_set_failed(t_tasks[k].url)
           netset_results ==
               Flatten([j \in 1..Len(jobs) |-> jobs[Len(jobs) + 1 - j].result])
       IN  /\ raised \/ \A j \in 1..Len(jobs) : jobs[j].st = "done"
           /\ t_rule' = [t_rule EXCEPT ![k] =
                 IF raised
                 THEN [@ EXCEPT !.st = StateOf(failed), !.result = failed.value]
                 ELSE [@ EXCEPT !.st = "done",
                                !.result = dedupe_lines(t_rule[k].output \o netset_results)]]
    /\ t_finished' = Append(t_finished, k)
    /\ UNCHANGED <<t_pc, t_tpl, t_tasks, t_passthrough, t_jobs, t_output, dvars, cvars, fvars>>

\* expand_rule_set, lines 158-162 and 166-169: asyncio.gather over the NETSET
\* jobs returns when all are done, or raises as soon as one has raised (the
\* others keep running); the results are appended and deduplicated.
NetsetsGathered(k) ==
    /\ t_pc = "gather" /\ ~ Hung
    /\ t_rule[k].st = "netsets"
    /\ LET jobs   == t_jobs[k]
           raised == \E j \in 1..Len(jobs) : jobs[j].st = "raised"
           failed == rule_set_failed(t_tasks[k].url)
           netset_results == Flatten([j \in 1..Len(jobs) |-> jobs[j].result])
       IN  /\ raised \/ \A j \in 1..Len(jobs) : jobs[j].st = "done"
           /\ t_rule' = [t_rule EXCEPT ![k] =
                 IF raised
                 THEN [@ EXCEPT !.st = StateOf(failed), !.result = failed.value]
                 ELSE [@ EXCEPT !.st = "done",
                                !.result = dedupe_lines(t_rule[k].output \o netset_results)]]
    /\ t_finished' = Append(t_finished, k)
    /\ UNCHANGED <<t_pc, t_tpl, t_tasks, t_passthrough, t_jobs, t_output, dvars, cvars, fvars>>

\* process_template, lines 182-202: asyncio.gather over the tasks returns
\* when all are done, or raises as soon as one has raised; the expansions are
\* merged with the passthrough lines, deduplicated and joined.
GatherCompletes ==
    /\ t_pc = "gather" /\ ~ Hung
    /\ LET raised     == \E k \in 1..Len(t_rule) : t_rule[k].st = "raised"
           expansions == gather_results(t_rule, t_finished)
       IN  /\ raised \/ \A k \in 1..Len(t_rule) : t_rule[k].st = "done"
           /\ IF raised
              THEN t_pc' = "raised" /\ t_output' = t_output
              ELSE /\ t_pc' = "done"
                   /\ t_output' = dedupe_lines(
                          merge_loop(t_tasks, expansions, t_passthrough,
                                     Len(t_tpl), 0, <<>>))
    /\ UNCHANGED <<t_tpl, t_tasks, t_passthrough, t_rule, t_jobs, t_finished, dvars, cvars, fvars>>

-----------------------------------------------------------------------------
(* The templates, rule-list bodies and netset texts the pipeline is        *)
(* explored over.                                                          *)

MaxTplLines == 3

\* The NETSET fetches of one request.
MaxNetsetJobs == 2

\* A blank line and a line that, trimmed, equals a rewritten rule of PlainBody
\* and OneNetsetBody under Directive1.
PassthroughLines ==
    { <<>>,
      Ln(<<" ", "DOMAIN", ",", "x", ",", "PROXY">>) }

Directive1 == Ln(<<"RULE-SET", ",", "u1", ",", "PROXY">>)
Directive2 ==
    Ln(<<" ", "rule-set", " ", ",", " ", "u2", " ", ",", " ", "DIRECT", ",",
         "no-resolve", " ", "#", "c">>)

\* template_text.split("\n") has at least one line; each directive occurs at
\* most once in a template.
Templates ==
    { tpl \in SeqsUpTo(PassthroughLines \cup {Directive1, Directive2}, MaxTplLines) :
        /\ Len(tpl) >= 1
        /\ \A d \in {Directive1, Directive2} :
               Cardinality({ i \in 1..Len(tpl) : tpl[i] = d }) <= 1 }

PlainBody ==
    << Ln(<<"DOMAIN", ",", "x">>),
       <<>>,
       Ln(<<"#", "c">>),
       Ln(<<" ", "DOMAIN", " ", ",", " ", "y", ",", " ", "REJECT", " ", "#", "c">>),
       Ln(<<"DOMAIN", ",", "x">>) >>

OneNetsetBody ==
    << Ln(<<"#NETSET", " ", "n1">>),
       Ln(<<"DOMAIN", ",", "x">>) >>

TwoNetsetBody ==
    << Ln(<<"#NETSET", " ", "n1">>),
       Ln(<<" ", "#netset", "\t", "n2", " ", "c">>) >>

RuleReplies ==
    { TransportError, StatusReply("404"),
      OkReply(PlainBody), OkReply(OneNetsetBody), OkReply(TwoNetsetBody) }

\* 10.0.1.0/24, 10.0.0.0/17 and 255.255.255.0/24 in units of 2^UnitBits
\* addresses; 2001:db8::/48 in units of 2^V6UnitBits addresses.
GoodNetset ==
    << <<Cidr4(167772416 \div (2 ^ UnitBits), 24)>>,
       <<Tok("IP"), Tok(" "), Cidr4(167772160 \div (2 ^ UnitBits), 17)>>,
       Ln(<<";", "c">>),
       <<Tok(" "), Cidr6(536939960, 48)>>,
       <<Bad6>>,
       Ln(<<"x">>) >>

BadNetset ==
    << <<Cidr4(167772416 \div (2 ^ UnitBits), 24)>>,
       <<Bad4>> >>

TopNetset ==
    << <<Cidr4(AddressSpace - 1, 24)>> >>

NetsetReplies ==
    { TransportError, StatusReply("404"),
      OkReply(GoodNetset), OkReply(BadNetset), OkReply(TopNetset) }

JobsStarted == Len(Flatten(t_jobs))

Init ==
    /\ t_pc = "start"
    /\ t_tpl \in Templates
    /\ t_tasks = <<>>
    /\ t_passthrough = <<>>
    /\ t_rule = <<>>
    /\ t_jobs = <<>>
    /\ t_finished = <<>>
    /\ t_output = <<>>
    /\ IdleDedupe
    /\ IdleCompact
    /\ IdleCall

Next ==
    \/ ParseTemplate
    \/ \E k \in 1..Len(t_rule) : \E reply \in RuleReplies :
           /\ JobsStarted + Len(netset_urls_of(reply.text, 1)) <= MaxNetsetJobs
           /\ RuleFetchCompletes(k, reply)
    \/ \E k \in 1..Len(t_rule) : \E j \in 1..Len(t_jobs[k]) : \E reply \in NetsetReplies :
           NetsetFetchCompletes(k, j, reply)
    \/ \E k \in 1..Len(t_rule) : NetsetsGathered(k)
    \/ GatherCompletes

Spec == Init /\ [][Next]_vars

\* SpecOneTask: process_template on the templates of one directive, among
\* passthrough lines that repeat what the directive expands to:
\* "# RULE-SET,u1" and "IP-CIDR,10.0.0.0/18,PROXY " besides PassthroughLines.
OneTaskLines ==
    PassthroughLines
    \cup { Ln(<<"# RULE-SET,", "u1">>),
           <<Tok("IP-CIDR"), Tok(","), Cidr4(655360, 18), Tok(","), Tok("PROXY"),
             Tok(" ")>> }

OneTaskTemplates ==
    { tpl \in SeqsUpTo(OneTaskLines \cup {Directive1, Directive2}, MaxTplLines) :
        Cardinality({ i \in 1..Len(tpl) : tpl[i] \in {Directive1, Directive2} }) = 1 }

InitOneTask ==
    /\ t_pc = "start"
    /\ t_tpl \in OneTaskTemplates
    /\ t_tasks = <<>>
    /\ t_passthrough = <<>>
    /\ t_rule = <<>>
    /\ t_jobs = <<>>
    /\ t_finished = <<>>
    /\ t_output = <<>>
    /\ IdleDedupe
    /\ IdleCompact
    /\ IdleCall

SpecOneTask == InitOneTask /\ [][Next]_vars

-----------------------------------------------------------------------------
(* Properties of the template pipeline (specification Spec).               *)

IsDirectiveLine(i) == \E k \in 1..Len(t_tasks) : t_tasks[k].index = i - 1

TaskOfLine(i) == CHOOSE k \in 1..Len(t_tasks) : t_tasks[k].index = i - 1

\* What template line i contributes: the result of its task, or the line.
Contribution(i) ==
    IF IsDirectiveLine(i) THEN t_rule[TaskOfLine(i)].result ELSE <<t_tpl[i]>>

\* The template lines whose contribution holds the line.
Origins(line) ==
    { i \in 1..Len(t_tpl) :
        \E p \in 1..Len(Contribution(i)) : Contribution(i)[p] = line }

\* The result of task k as a function of the replies alone.
ExpectedResult(k) ==
    LET reply  == t_rule[k].reply
        url    == t_tasks[k].url
        suffix == t_tasks[k].suffix
        urls   == netset_urls_of(reply.text, 1)
    IN  IF reply.kind # "ok" THEN << <<Tok("# RULE-SET fetch failed: ")>> \o url >>
        ELSE dedupe_lines(
                 rule_set_output(url, suffix, reply.text)
                 \o Flatten([j \in 1..Len(urls) |->
                               expand_netset(urls[j], suffix, t_jobs[k][j].reply).value]))

ExpectedOutput ==
    dedupe_lines(Flatten([i \in 1..Len(t_tpl) |->
                            IF IsDirectiveLine(i) THEN ExpectedResult(TaskOfLine(i))
                            ELSE <<t_tpl[i]>>]))

\* C3: splicing is by recorded line index, not completion order.  In the
\* output of process_template every line comes from some template line, the
\* lines of template line i precede those of template line j when i < j (a
\* line is attributed to the first template line that contributes it), and
\* the output is the same function of the template and the fetch replies
\* whatever the order in which the fetches completed.
C3_SpliceByLineIndex ==
    t_pc = "done" =>
        LET origins == [p \in 1..Len(t_output) |-> Origins(t_output[p])]
        IN  /\ \A p \in 1..Len(t_output) : origins[p] # {}
            /\ \A p, q \in 1..Len(t_output) :
                   p < q => SetMin(origins[p]) <= SetMin(origins[q])
            /\ t_output = ExpectedOutput

\* The second task finished first, and both expansions and a passthrough
\* line are in the output.
C3_Witness ==
    /\ t_pc = "done"
    /\ t_finished = <<2, 1>>
    /\ Len(t_tpl) = 3 /\ ~ IsDirectiveLine(2)
    /\ Len(t_rule[1].result) >= 2 /\ Len(t_rule[2].result) >= 2
    /\ \E p \in 1..Len(t_output) : t_output[p] = t_tpl[2]

\* C4: join barrier.  process_template assembles its output only when every
\* RULE-SET expansion has completed, and a RULE-SET expansion has returned
\* only when every NETSET expansion it started has completed.
C4_JoinBarrier ==
    /\ t_pc \in {"done", "raised"} =>
           \A k \in 1..Len(t_rule) : t_rule[k].st \notin {"fetching", "netsets"}
    /\ \A k \in 1..Len(t_rule) :
           t_rule[k].st \in {"done", "raised"} =>
               \A j \in 1..Len(t_jobs[k]) : t_jobs[k][j].st # "fetching"

\* The output is assembled after two tasks, one of which waited for two
\* NETSET expansions, one of them failed.
C4_Witness ==
    /\ t_pc = "done"
    /\ Len(t_rule) = 2
    /\ \E k \in 1..Len(t_rule) :
           /\ Len(t_jobs[k]) = 2
           /\ t_jobs[k][1].reply.kind = "transport"
           /\ t_jobs[k][2].reply.kind = "ok"

RECURSIVE IsSubseq(_, _)
IsSubseq(s, t) ==
    IF s = <<>> THEN TRUE
    ELSE IF t = <<>> THEN FALSE
    ELSE IF Head(s) = Head(t) THEN IsSubseq(Tail(s), Tail(t))
    ELSE IsSubseq(s, Tail(t))

RECURSIVE SelectLines(_, _, _)
SelectLines(Keep(_), i, n) ==
    IF i > n THEN <<>>
    ELSE (IF Keep(i) THEN <<t_tpl[i]>> ELSE <<>>) \o SelectLines(Keep, i + 1, n)

IsPassthroughLine(i) == ~ IsDirectiveLine(i)

\* The lines assembled before template line i.
AssembledBefore(i) == Flatten([m \in 1..(i - 1) |-> Contribution(m)])

RepeatsEarlier(i) ==
    \E p \in 1..Len(AssembledBefore(i)) : strip(AssembledBefore(i)[p]) = strip(t_tpl[i])

KeptPassthrough(i) ==
    /\ IsPassthroughLine(i)
    /\ strip(t_tpl[i]) # <<>>
    /\ ~ RepeatsEarlier(i)

\* C6 as stated: every passthrough line of the template, blank and repeated
\* lines included, appears in the output at its original relative position.
C6_EveryPassthroughLineKept ==
    t_pc = "done" => IsSubseq(SelectLines(IsPassthroughLine, 1, Len(t_tpl)), t_output)

\* C6, amended: a passthrough line appears in the output, at its original
\* relative position, when it is not blank after trimming and its trimmed
\* text differs from that of every line assembled before it; the output
\* holds no blank line and no two lines with the same trimmed text.
C6_PassthroughKeptUnlessBlankOrRepeated ==
    t_pc = "done" =>
        /\ IsSubseq(SelectLines(KeptPassthrough, 1, Len(t_tpl)), t_output)
        /\ \A p \in 1..Len(t_output) : strip(t_output[p]) # <<>>
        /\ \A p, q \in 1..Len(t_output) :
               p # q => strip(t_output[p]) # strip(t_output[q])

\* A template with a passthrough line that is kept, a blank one and one that
\* repeats an earlier line.
C6_Witness ==
    /\ t_pc = "done"
    /\ \E i \in 1..Len(t_tpl) :
           KeptPassthrough(i) /\ \E p \in 1..Len(t_output) : t_output[p] = t_tpl[i]
    /\ \E i \in 1..Len(t_tpl) : IsPassthroughLine(i) /\ strip(t_tpl[i]) = <<>>
    /\ \E i \in 1..Len(t_tpl) :
           IsPassthroughLine(i) /\ strip(t_tpl[i]) # <<>> /\ RepeatsEarlier(i)

\* C7: expand_netset never raises.  After a non-success status its result is
\* exactly the line "# NETSET fetch failed: <url> (<status>)"; after an
\* exception of the fetch or of the expansion it is exactly the line
\* "# NETSET error: <url>"; in both cases there is no IP-CIDR line.
C7_NetsetFailureLines ==
    \A k \in 1..Len(t_rule) : \A j \in 1..Len(t_jobs[k]) :
        LET job == t_jobs[k][j]
            url == t_rule[k].urls[j]
            expansion_raises ==
                /\ job.reply.kind = "ok"
                /\ netset_expand(job.reply.text, t_tasks[k].suffix,
                                 ipv4_block_prefix, ipv6_block_prefix).raised
            no_ip_cidr == \A p \in 1..Len(job.result) : Head(job.result[p]).k # "IP-CIDR"
        IN  /\ job.st # "raised"
            /\ job.reply.kind = "status" =>
                   /\ job.st = "done"
                   /\ job.result = << <<Tok("# NETSET fetch failed: ")>> \o url
                                      \o <<Tok(" ("), Tok(job.reply.code), Tok(")")>> >>
                   /\ no_ip_cidr
            /\ (job.reply.kind = "transport" \/ expansion_raises) =>
                   /\ job.st = "done"
                   /\ job.result = << <<Tok("# NETSET error: ")>> \o url >>
                   /\ no_ip_cidr

\* One task whose first NETSET fetch ended with a status and whose second
\* fetched a netset with an IPv4 CIDR that does not parse.
C7_Witness ==
    \E k \in 1..Len(t_rule) :
        /\ Len(t_jobs[k]) = 2
        /\ t_jobs[k][1].st = "done" /\ t_jobs[k][1].reply.kind = "status"
        /\ t_jobs[k][2].st = "done" /\ t_jobs[k][2].reply = OkReply(BadNetset)

\* C8: expand_rule_set absorbs its own fetch failure.  After a transport
\* error or a non-success status of the fetch of the task's URL its result
\* is exactly the line "# RULE-SET fetch failed: <url>", without header or
\* rule lines, and nothing is raised.
C8_RuleSetFailureLine ==
    \A k \in 1..Len(t_rule) :
        t_rule[k].reply.kind \in {"transport", "status"} =>
            /\ t_rule[k].st = "done"
            /\ t_rule[k].result = << <<Tok("# RULE-SET fetch failed: ")>> \o t_tasks[k].url >>

\* Two tasks, one failed with a transport error and one with a status.
C8_Witness ==
    /\ Len(t_rule) = 2
    /\ t_rule[1].reply.kind = "transport" /\ t_rule[1].st = "done"
    /\ t_rule[2].reply.kind = "status" /\ t_rule[2].st = "done"

-----------------------------------------------------------------------------
(* Properties of expand_rule_set on a body with NETSET markers.            *)

\* The results of the NETSET jobs of task k, flattened in job order.
NetsetResultsOf(k) == Flatten([j \in 1..Len(t_jobs[k]) |-> t_jobs[k][j].result])

\* The body lines of task k that are neither blank nor comments (a NETSET
\* marker line begins with '#').
RegularRuleLines(k) ==
    { i \in 1..Len(t_rule[k].reply.text) :
        /\ strip(t_rule[k].reply.text[i]) # <<>>
        /\ ~ startswith_hash(strip(t_rule[k].reply.text[i])) }

ReturnedWithNetsets(k) ==
    /\ t_rule[k].st = "done"
    /\ t_rule[k].reply.kind = "ok"
    /\ netset_urls_of(t_rule[k].reply.text, 1) # <<>>

\* C11 as stated: when the body holds a NETSET marker, the result is the
\* header followed by the deduplicated NETSET results, and the regular rule
\* lines of the body are not rewritten and do not appear in it.
C11_OnlyHeaderAndNetsets ==
    \A k \in 1..Len(t_rule) :
        ReturnedWithNetsets(k) =>
            t_rule[k].result =
                dedupe_lines(<<rule_set_header(t_tasks[k].url)>> \o NetsetResultsOf(k))

\* C11, amended: when the body holds a NETSET marker, the regular rule lines
\* are rewritten all the same; the result is the deduplicated list of the
\* header, the rewritten rules and the NETSET results, in that order, and
\* every rewritten rule is in it (up to trimming).
C11_RulesAndNetsets ==
    \A k \in 1..Len(t_rule) :
        ReturnedWithNetsets(k) =>
            LET body   == t_rule[k].reply.text
                suffix == t_tasks[k].suffix
                result == t_rule[k].result
                netsets == NetsetResultsOf(k)
                keys   == { strip(result[p]) : p \in 1..Len(result) }
            IN  /\ result # <<>> /\ Head(result) = rule_set_header(t_tasks[k].url)
                /\ \A i \in RegularRuleLines(k) :
                       strip(rewrite_rule(strip(body[i]), suffix)) \in keys
                /\ \A q \in 1..Len(netsets) : strip(netsets[q]) \in keys
                /\ result =
                       dedupe_lines(
                           rules_loop(body, 1, suffix, <<rule_set_header(t_tasks[k].url)>>)
                           \o netsets)

\* A task whose body holds a NETSET marker and a regular rule has returned
\* after its netset was expanded into IP-CIDR lines.
C11_Witness ==
    \E k \in 1..Len(t_rule) :
        /\ ReturnedWithNetsets(k)
        /\ RegularRuleLines(k) # {}
        /\ t_jobs[k][1].reply = OkReply(GoodNetset)
        /\ Len(t_rule[k].result) >= 4

-----------------------------------------------------------------------------
(* Properties of the size of compact_networks' result (SpecCompact).       *)

\* The returned list in address order, and its neighbouring pairs.
ReturnedInAddressOrder == sort_by_address(c_nets)

ExceedsTarget == c_pc = "done" /\ Len(c_nets) > c_target

\* n1 and n2 lie in one block of prefix length p.
InOneBlock(n1, n2, p) ==
    LET block == Net(FloorTo(network_address(n1), 2 ^ (MaxPrefix - p)), p)
    IN  subnet_of(n1, block) /\ subnet_of(n2, block)

\* The addresses that merging n1 and n2 into their block of prefix length p
\* adds.
AddedByBlock(n1, n2, p) ==
    2 ^ (MaxPrefix - p) - num_addresses(n1) - num_addresses(n2)

LargestThreshold == 16777216 \div (2 ^ UnitBits)

\* C12 as stated: when the returned list has more than target_max blocks, no
\* two address-adjacent blocks of it have a common supernet of prefix length
\* >= min_prefix.
C12_ExceedsOnlyAtFloor ==
    ExceedsTarget =>
        \A i \in 1..(Len(c_nets) - 1) :
            \A p \in c_minp..MaxPrefix :
                ~ InOneBlock(ReturnedInAddressOrder[i], ReturnedInAddressOrder[i + 1], p)

\* C12, amended: when the returned list has more than target_max blocks,
\* every two address-adjacent blocks of it either do not lie in one block of
\* prefix length min_prefix, or merging them into that block would add more
\* addresses than the largest cost threshold.
C12_ExceedsAtFloorOrCost ==
    ExceedsTarget =>
        \A i \in 1..(Len(c_nets) - 1) :
            LET n1 == ReturnedInAddressOrder[i]
                n2 == ReturnedInAddressOrder[i + 1]
            IN  \/ ~ InOneBlock(n1, n2, c_minp)
                \/ AddedByBlock(n1, n2, c_minp) > LargestThreshold

\* compact_networks has gone through all thresholds and returns more than
\* target_max blocks, two of which lie in one block of prefix length
\* min_prefix that would cost more than the largest threshold.
C12_Witness ==
    /\ ExceedsTarget
    /\ c_ti = Len(thresholds_in_addresses)
    /\ \E i \in 1..(Len(c_nets) - 1) :
           /\ InOneBlock(c_nets[i], c_nets[i + 1], c_minp)
           /\ AddedByBlock(c_nets[i], c_nets[i + 1], c_minp) > LargestThreshold

-----------------------------------------------------------------------------
(* SpecCover: one call of ipv4_cover_blocks or of ipv6_cidr_to_blocks.     *)
(* IPv4 addresses are in units of 2^UnitBits addresses, so prefix lengths   *)
(* and target prefixes run from 0 to MaxPrefix; IPv6 addresses are in      *)
(* units of 2^V6UnitBits addresses, so target prefixes run from 0 to       *)
(* MaxBits6 - V6UnitBits.                                                  *)

\* How far the target prefix may exceed the prefix of an IPv4 CIDR: the
\* call returns at most 2^MaxCoverSpan blocks.
MaxCoverSpan == 3

\* 0.0.0.0, 10.0.0.0, 10.0.1.0, 10.1.64.0, 192.168.1.0, 255.255.0.0 and
\* 255.255.255.0.
CoverBases4 == {0, 655360, 655361, 655680, 12625921, 16776960, 16777215}

CoverPrefixes4 == {0, 8, 15, 16, 17, 18, 20, 24}

CoverTargets4 == {0, 8, 16, 18, 20, 24}

\* 2001:db8::, 2001:db9::, 2a00:1450:: and :: (their leading 32 bits).
CoverBases6 == {536939960, 536939961, 704648272, 0}

CoverPrefixes6 == {0, 16, 29, 32, 33, 48, 64, 128}

CoverTargets6 == {0, 16, 29, 32}

CoverCalls4 ==
    { c \in [fn : {"ipv4_cover_blocks"},
             cidr : { Cidr4(a, l) : a \in CoverBases4, l \in CoverPrefixes4 } \cup {Bad4},
             target : CoverTargets4] :
        c.cidr.k = "cidr4" => c.target - c.cidr.l <= MaxCoverSpan }

CoverCalls6 ==
    [fn : {"ipv6_cidr_to_blocks"},
     cidr : { Cidr6(a, l) : a \in CoverBases6, l \in CoverPrefixes6 } \cup {Bad6},
     target : CoverTargets6]

pc_after(r) == IF r.diverges THEN "hung" ELSE IF r.raised THEN "raised" ELSE "returned"

InitCover ==
    /\ f_pc = "call"
    /\ f_args \in CoverCalls4 \cup CoverCalls6
    /\ f_ret = <<>>
    /\ IdleDedupe
    /\ IdleCompact
    /\ IdleTemplate

CoverBlocks4 ==
    /\ f_pc = "call"
    /\ f_args.fn = "ipv4_cover_blocks"
    /\ LET r == ipv4_cover_blocks(f_args.cidr, f_args.target)
       IN  f_pc' = pc_after(r) /\ f_ret' = r.value
    /\ UNCHANGED <<f_args, dvars, cvars, tvars>>

CidrToBlocks6 ==
    /\ f_pc = "call"
    /\ f_args.fn = "ipv6_cidr_to_blocks"
    /\ LET r == ipv6_cidr_to_blocks(f_args.cidr, f_args.target)
       IN  f_pc' = pc_after(r) /\ f_ret' = r.value
    /\ UNCHANGED <<f_args, dvars, cvars, tvars>>

NextCover ==
    \/ CoverBlocks4
    \/ CidrToBlocks6

SpecCover == InitCover /\ [][NextCover]_vars

-----------------------------------------------------------------------------
(* Properties of ipv4_cover_blocks and ipv6_cidr_to_blocks (SpecCover).    *)

\* a with only its leading bits kept, a being a number of width bits.
KeepLeadingBits(a, bits, width) ==
    IF bits >= width THEN a
    ELSE IF width - bits >= 31 THEN 0
    ELSE (a \div 2 ^ (width - bits)) * 2 ^ (width - bits)

ReturnedFrom(fn) == f_pc = "returned" /\ f_args.fn = fn

C14_CoverBlocksTotal ==
    (f_pc # "call" /\ f_args.fn = "ipv4_cover_blocks" /\ f_args.cidr.k = "cidr4")
        => f_pc = "returned"

\* C15: ipv6_cidr_to_blocks returns exactly one block, of prefix length
\* target, whose base is the network address of the input with the bits
\* beyond the target prefix zeroed, whether the input prefix is shorter
\* than, equal to or longer than the target.
C15_FlooredBlock6 ==
    (f_pc # "call" /\ f_args.fn = "ipv6_cidr_to_blocks" /\ f_args.cidr.k = "cidr6") =>
        LET width   == MaxBits6 - V6UnitBits
            network == KeepLeadingBits(f_args.cidr.a, f_args.cidr.l, width)
        IN  /\ f_pc = "returned"
            /\ f_ret = <<Cidr6(KeepLeadingBits(network, f_args.target, width),
                               f_args.target)>>

\* 2001:db8::/48 at target 16 has returned 2001::/16.
C15_Witness ==
    /\ ReturnedFrom("ipv6_cidr_to_blocks")
    /\ f_args.cidr = Cidr6(536939960, 48) /\ f_args.target = 16
    /\ f_ret = <<Cidr6(536936448, 16)>>

-----------------------------------------------------------------------------
(* SpecNetset: one call of netset_expand(text, suffix) with the default    *)
(* block prefixes and without compaction.                                  *)

MaxNetsetLines == 3

\* 10.0.1.0/24, "IP 10.0.0.0/17", "ip<TAB>192.168.1.0/24 ", 2001:db8::/48,
\* 255.255.255.0/24, CIDR texts that do not parse, 2001:db8::1/128,
\* comments, a blank line and lines that are no CIDR.
NetsetLines ==
    { <<Cidr4(655361, 24)>>,
      <<Tok("IP"), Tok(" "), Cidr4(655360, 17)>>,
      <<Tok("ip"), Tok("\t"), Cidr4(12625921, 24), Tok(" ")>>,
      <<Tok(" "), Cidr6(536939960, 48)>>,
      <<Cidr4(AddressSpace - 1, 24)>>,
      <<Bad4>>,
      <<Bad6>>,
      <<Cidr6Host(536939960, 128)>>,
      Ln(<<"#", "c">>),
      Ln(<<";", "c">>),
      <<>>,
      Ln(<<"x">>),
      <<Tok("IP"), Cidr4(655361, 24)>> }

NetsetSuffixes == { Ln(<<",", "PROXY">>), Ln(<<",", "DIRECT", ",", "no-resolve">>) }

InitNetset ==
    /\ f_pc = "call"
    /\ f_args \in [fn : {"netset_expand"},
                   text : SeqsUpTo(NetsetLines, MaxNetsetLines) \ {<<>>},
                   suffix : NetsetSuffixes]
    /\ f_ret = <<>>
    /\ IdleDedupe
    /\ IdleCompact
    /\ IdleTemplate

NetsetExpand ==
    /\ f_pc = "call"
    /\ LET r == netset_expand(f_args.text, f_args.suffix,
                              ipv4_block_prefix, ipv6_block_prefix)
       IN  f_pc' = pc_after(r) /\ f_ret' = r.value
    /\ UNCHANGED <<f_args, dvars, cvars, tvars>>

NextNetset == NetsetExpand

SpecNetset == InitNetset /\ [][NextNetset]_vars

-----------------------------------------------------------------------------
(* Properties of netset_expand (SpecNetset).                               *)

\* The line without surrounding whitespace and without a leading "IP ".
CidrText(raw) ==
    LET s == strip(raw)
    IN  IF Len(s) >= 2 /\ s[1].k \in {"IP", "ip"} /\ s[2].k \in Whitespace
        THEN strip(Tail(s))
        ELSE s

IsSkippedLine(raw) ==
    \/ strip(raw) = <<>>
    \/ Head(strip(raw)).k \in HashLed \cup {";"}

IsCidrLine(raw, kinds) ==
    ~ IsSkippedLine(raw) /\ Len(CidrText(raw)) = 1 /\ CidrText(raw)[1].k \in kinds

\* The lines one line of the netset stands for, v6 being the kinds of text
\* taken as an IPv6 CIDR.
LineContribution(raw, suffix, v6) ==
    IF IsCidrLine(raw, {"cidr4"})
    THEN LET blocks == ipv4_cover_blocks(CidrText(raw)[1], ipv4_block_prefix).value
         IN  [b \in 1..Len(blocks) |->
                <<Tok("IP-CIDR"), Tok(","), blocks[b]>> \o suffix]
    ELSE IF IsCidrLine(raw, v6)
    THEN LET blocks6 == ipv6_cidr_to_blocks(CidrText(raw)[1], ipv6_block_prefix).value
         IN  << <<Tok("IP-CIDR"), Tok(","), blocks6[1]>> \o suffix >>
    ELSE IF IsCidrLine(raw, {"bad6"})
    THEN << <<Tok("IP-CIDR"), Tok(",")>> \o CidrText(raw) \o suffix >>
    ELSE <<>>

Produced(text, suffix, v6) ==
    Flatten([i \in 1..Len(text) |-> LineContribution(text[i], suffix, v6)])

\* The result is the produced lines in order of first production without
\* the repeats, each starting with "IP-CIDR," and ending with the suffix.
ResultIsProduced(v6) ==
    LET P == Produced(f_args.text, f_args.suffix, v6)
        F == FirstPositions(P)
        n == Len(f_args.suffix)
    IN  /\ Len(f_ret) = Cardinality(F)
        /\ \A k \in 1..Len(f_ret) : f_ret[k] = P[KthPosition(F, k)]
        /\ \A k \in 1..Len(f_ret) :
               /\ SubSeq(f_ret[k], 1, 2) = <<Tok("IP-CIDR"), Tok(",")>>
               /\ SubSeq(f_ret[k], Len(f_ret[k]) - n + 1, Len(f_ret[k])) = f_args.suffix

NoEndlessLine(text) ==
    \A i \in 1..Len(text) :
        IsCidrLine(text[i], {"cidr4"}) =>
            ~ ipv4_cover_blocks(CidrText(text[i])[1], ipv4_block_prefix).diverges

\* C20: a line that matches a CIDR regex but does not parse (IPv4 or IPv6)
\* does not abort netset_expand: the call returns, and the line is in the
\* result as "IP-CIDR,<original line><suffix>".
C20_BadCidrPassedThrough ==
    (f_pc # "call" /\ NoEndlessLine(f_args.text)) =>
        /\ f_pc = "returned"
        /\ \A i \in 1..Len(f_args.text) :
               IsCidrLine(f_args.text[i], {"bad4", "bad6"}) =>
                   \E k \in 1..Len(f_ret) :
                       f_ret[k] = <<Tok("IP-CIDR"), Tok(",")>>
                                  \o CidrText(f_args.text[i]) \o f_args.suffix

-----------------------------------------------------------------------------
(* SpecParse: one call of parse_template(template_text).                   *)

MaxParseLines == 3

\* Directives, lines that fall short of the directive grammar, and other
\* lines.
ParseLines ==
    { Directive1,
      Directive2,
      Ln(<<"RULE-SET", ",", "u1", ",", "PROXY", ",", "no-resolve">>),
      Ln(<<"RULE-SET", ",", "u1", ",", " ">>),
      Ln(<<"RULE-SET", ",", "u1", ",", "\t", " ", "#", "c">>),
      Ln(<<"RULE-SET", ",", "u#1", ",", "PROXY", " ", "#", "a", ",", "b">>),
      Ln(<<"RULE-SET", ",", "u1", ",", "#", "c">>),
      Ln(<<"RULE-SET", ",", "u1", ",">>),
      Ln(<<"RULE-SET", ",", "u1">>),
      Ln(<<"RULE-SET", ",", ",", "PROXY">>),
      Ln(<<"RULE-SET", ",", "u", " ", "1", ",", "PROXY">>),
      Ln(<<"RULE-SET", " ", "u1", ",", "PROXY">>),
      Ln(<<"#", " ", "RULE-SET", ",", "u1", ",", "PROXY">>),
      Ln(<<"DOMAIN", ",", "x", ",", "PROXY">>),
      <<>> }

InitParse ==
    /\ f_pc = "call"
    /\ f_args \in [fn : {"parse_template"},
                   template_text : SeqsUpTo(ParseLines, MaxParseLines) \ {<<>>}]
    /\ f_ret = <<>>
    /\ IdleDedupe
    /\ IdleCompact
    /\ IdleTemplate

\* parse_template returns (tasks, passthrough, len(lines)).
ParseTemplateCall ==
    /\ f_pc = "call"
    /\ f_pc' = "returned"
    /\ f_ret' = [tasks |-> parse_tasks(f_args.template_text, 1),
                 passthrough |-> parse_passthrough(f_args.template_text),
                 count |-> Len(f_args.template_text)]
    /\ UNCHANGED <<f_args, dvars, cvars, tvars>>

NextParse == ParseTemplateCall

SpecParse == InitParse /\ [][NextParse]_vars

-----------------------------------------------------------------------------
(* Properties of parse_template (SpecParse).  The directive grammar is     *)
(* "RULE-SET , <url> , <rest> [# comment]": the keyword in either case     *)
(* before the first comma, a URL without whitespace between the first two  *)
(* commas, and something other than a comment after the second.            *)

Commas(line) == { i \in 1..Len(line) : line[i].k = "," }

FirstComma(line) == SetMin(Commas(line))

SecondComma(line) == SetMin(Commas(line) \ {FirstComma(line)})

AfterSecondComma(line) == SubSeq(line, SecondComma(line) + 1, Len(line))

IsDirectiveText(line) ==
    /\ Cardinality(Commas(line)) >= 2
    /\ LET keyword == strip(SubSeq(line, 1, FirstComma(line) - 1))
           url     == strip(SubSeq(line, FirstComma(line) + 1, SecondComma(line) - 1))
           rest    == AfterSecondComma(line)
       IN  /\ Len(keyword) = 1 /\ keyword[1].k \in {"RULE-SET", "rule-set"}
           /\ url # <<>> /\ \A j \in 1..Len(url) : ~ IsWs(url[j])
           /\ rest # <<>> /\ ~ IsHash(rest[1])

\* The rest of a directive without its trailing comment, trimmed.
DirectiveRest(line) ==
    LET rest     == AfterSecondComma(line)
        comments == { i \in 1..Len(rest) : IsHash(rest[i]) }
    IN  IF comments = {} THEN strip(rest)
        ELSE strip(SubSeq(rest, 1, SetMin(comments) - 1))

\* C17: parse_template returns the number N of lines of the template, and
\* for every index i in [0, N) exactly one of: a task with index i exists,
\* or passthrough[i] is the original line; task indices are distinct and
\* ascending, a line is a task iff it matches the directive grammar, and a
\* task's suffix is a comma followed by the trimmed rest of the directive
\* without its trailing comment.
C17_ParsePartitions ==
    f_pc = "returned" =>
        LET lines == f_args.template_text
            N     == Len(lines)
            tasks == f_ret.tasks
            IsTask(i) == \E k \in 1..Len(tasks) : tasks[k].index = i
        IN  /\ f_ret.count = N
            /\ Len(f_ret.passthrough) = N
            /\ \A i \in 0..(N - 1) :
                   /\ IsTask(i) <=> IsDirectiveText(lines[i + 1])
                   /\ IsTask(i) <=> f_ret.passthrough[i + 1] = NoLine
                   /\ ~ IsTask(i) => f_ret.passthrough[i + 1] = lines[i + 1]
            /\ \A k \in 1..Len(tasks) : tasks[k].index \in 0..(N - 1)
            /\ \A k1, k2 \in 1..Len(tasks) :
                   k1 < k2 => tasks[k1].index < tasks[k2].index
            /\ \A k \in 1..Len(tasks) :
                   tasks[k].suffix =
                       <<Tok(",")>> \o DirectiveRest(lines[tasks[k].index + 1])

\* A template of a plain line, the directive with a comment and a directive
\* whose rest is blank: two tasks, at indices 1 and 2, with suffixes
\* ",DIRECT,no-resolve" and ",".
C17_Witness ==
    /\ f_pc = "returned"
    /\ f_args.template_text =
           << Ln(<<"DOMAIN", ",", "x", ",", "PROXY">>),
              Directive2,
              Ln(<<"RULE-SET", ",", "u1", ",", " ">>) >>
    /\ Len(f_ret.tasks) = 2
    /\ f_ret.tasks[1].index = 1
    /\ f_ret.tasks[1].suffix = Ln(<<",", "DIRECT", ",", "no-resolve">>)
    /\ f_ret.tasks[2].suffix = Ln(<<",">>)
    /\ f_ret.passthrough[1] = f_args.template_text[1]

-----------------------------------------------------------------------------
(* SpecRules: one call of expand_rule_set whose fetch ends with a failure  *)
(* or with a body without NETSET markers (bodies with markers await their  *)
(* expand_netset jobs; Spec has them).                                     *)

MaxRuleLines == 3

RuleLines ==
    { Ln(<<"DOMAIN", ",", "x">>),
      Ln(<<"DOMAIN", ",", "x", ",", "PROXY">>),
      Ln(<<" ", "DOMAIN", ",", "x", ",", "direct", " ", "\r">>),
      Ln(<<"DOMAIN", " ", ",", "\t", "y", " ", ",", " ", "REJECT", " ", "#", "c">>),
      Ln(<<"DOMAIN", ",", "x", ",", "PROXY", ",", "no-resolve">>),
      Ln(<<"DOMAIN", ",", "x", " ", "y", ",", "PROXY", " ", "z">>),
      Ln(<<"DOMAIN", ",", "x", "#", "c", ",", "PROXY">>),
      Ln(<<"PROXY">>),
      Ln(<<" ", "#", "c">>),
      <<>> }

RuleSuffixes ==
    { Ln(<<",", "PROXY">>), Ln(<<",", "DIRECT", ",", "no-resolve">>), Ln(<<",">>) }

RuleBodies == SeqsUpTo(RuleLines, MaxRuleLines) \ {<<>>}

InitRules ==
    /\ f_pc = "call"
    /\ f_args \in [fn : {"expand_rule_set"},
                   url : {Ln(<<"u1">>)},
                   suffix : RuleSuffixes,
                   reply : {TransportError, StatusReply("404")}
                           \cup { OkReply(body) : body \in RuleBodies }]
    /\ f_ret = <<>>
    /\ IdleDedupe
    /\ IdleCompact
    /\ IdleTemplate

\* expand_rule_set, lines 105-151 and 164-169, netset_urls being empty.
ExpandRuleSet ==
    /\ f_pc = "call"
    /\ netset_urls_of(f_args.reply.text, 1) = <<>>
    /\ LET r == IF f_args.reply.kind # "ok"
                THEN rule_set_failed(f_args.url)
                ELSE Returned(dedupe_lines(rule_set_output(f_args.url, f_args.suffix,
                                                           f_args.reply.text)))
       IN  f_pc' = pc_after(r) /\ f_ret' = r.value
    /\ UNCHANGED <<f_args, dvars, cvars, tvars>>

NextRules == ExpandRuleSet

SpecRules == InitRules /\ [][NextRules]_vars

-----------------------------------------------------------------------------
(* Properties of the rule rewriting (SpecRules).                           *)

\* A body line that is neither empty nor a comment.
IsRuleLine(raw) == strip(raw) # <<>> /\ ~ IsHash(strip(raw)[1])

\* The line without its comment and surrounding whitespace.
RuleCore(raw) ==
    LET t        == strip(raw)
        comments == { i \in 1..Len(t) : IsHash(t[i]) }
    IN  IF comments = {} THEN t ELSE strip(SubSeq(t, 1, SetMin(comments) - 1))

\* Whitespace with nothing but whitespace between it and a comma.
BesideComma(line, i) ==
    /\ IsWs(line[i])
    /\ \E c \in Commas(line) :
          \/ c < i /\ \A j \in (c + 1)..i : IsWs(line[j])
          \/ c > i /\ \A j \in i..(c - 1) : IsWs(line[j])

WithoutSpaceAtCommas(line) ==
    LET K == { i \in 1..Len(line) : ~ BesideComma(line, i) }
    IN  [k \in 1..Cardinality(K) |-> line[KthPosition(K, k)]]

\* The rule a body line becomes under a suffix.
Rewritten(raw, suffix) ==
    LET c == WithoutSpaceAtCommas(RuleCore(raw))
        n == Len(c)
    IN  IF n >= 2 /\ c[n - 1].k = "," /\ c[n].k \in ActionTokens
        THEN SubSeq(c, 1, n - 2) \o suffix
        ELSE c \o suffix

RewrittenBody(body, suffix) ==
    LET R == { i \in 1..Len(body) : IsRuleLine(body[i]) }
    IN  [k \in 1..Cardinality(R) |-> Rewritten(body[KthPosition(R, k)], suffix)]

\* C18: after a successful fetch of a body without NETSET markers the first
\* result line is the header "# RULE-SET,<url>"; every other result line
\* comes from one non-empty, non-comment body line and ends with the task's
\* suffix: a line whose last comma-separated token is PROXY, DIRECT or
\* REJECT in either case has ",<token>" replaced by the suffix, any other
\* line has the suffix appended.  The result holds the header and the
\* rewritten lines in body order, without the repeats.
C18_RewrittenRules ==
    (f_pc = "returned" /\ f_args.reply.kind = "ok") =>
        LET body   == f_args.reply.text
            suffix == f_args.suffix
            P      == <<rule_set_header(f_args.url)>> \o RewrittenBody(body, suffix)
            F      == FirstPositions(P)
        IN  /\ f_ret[1] = <<Tok("# RULE-SET,")>> \o f_args.url
            /\ Len(f_ret) = Cardinality(F)
            /\ \A k \in 1..Len(f_ret) : f_ret[k] = P[KthPosition(F, k)]
            /\ \A k \in 2..Len(f_ret) :
                   /\ \E i \in 1..Len(body) :
                          IsRuleLine(body[i]) /\ f_ret[k] = Rewritten(body[i], suffix)
                   /\ SubSeq(f_ret[k], Len(f_ret[k]) - Len(suffix) + 1, Len(f_ret[k]))
                          = suffix

\* A body of " DOMAIN,x,direct <CR>", "DOMAIN ,<TAB>y , REJECT #c" and
\* "DOMAIN,x,PROXY,no-resolve" under ",DIRECT,no-resolve".
C18_Witness ==
    /\ f_pc = "returned"
    /\ f_args.suffix = Ln(<<",", "DIRECT", ",", "no-resolve">>)
    /\ f_args.reply =
           OkReply(<< Ln(<<" ", "DOMAIN", ",", "x", ",", "direct", " ", "\r">>),
                      Ln(<<"DOMAIN", " ", ",", "\t", "y", " ", ",", " ", "REJECT", " ",
                           "#", "c">>),
                      Ln(<<"DOMAIN", ",", "x", ",", "PROXY", ",", "no-resolve">>) >>)
    /\ f_ret = << Ln(<<"# RULE-SET,", "u1">>),
                  Ln(<<"DOMAIN", ",", "x", ",", "DIRECT", ",", "no-resolve">>),
                  Ln(<<"DOMAIN", ",", "y", ",", "DIRECT", ",", "no-resolve">>),
                  Ln(<<"DOMAIN", ",", "x", ",", "PROXY", ",", "no-resolve", ",", "DIRECT",
                       ",", "no-resolve">>) >>

-----------------------------------------------------------------------------
(* Global deduplication of the output of process_template (SpecOneTask).   *)

\* The list process_template assembles before its final dedupe_lines.
Assembled == AssembledBefore(Len(t_tpl) + 1)

\* C19: the final output of process_template is globally deduplicated: no
\* two lines of the output are equal after trimming, and of the assembled
\* lines with one trimmed text the one produced first is kept and every
\* later one is dropped.
C19_GloballyDeduplicated ==
    t_pc = "done" =>
        LET A     == Assembled
            keyA  == [p \in 1..Len(A) |-> strip(A[p])]
            keyO  == [k \in 1..Len(t_output) |-> strip(t_output[k])]
            first == [k \in 1..Len(t_output) |->
                        SetMin({ p \in 1..Len(A) : keyA[p] = keyO[k] } \cup {Len(A) + 1})]
        IN  /\ \A p, q \in 1..Len(t_output) : p < q => keyO[p] # keyO[q]
            /\ \A p \in 1..Len(A) :
                   keyA[p] # <<>> => \E k \in 1..Len(t_output) : keyO[k] = keyA[p]
            /\ \A k \in 1..Len(t_output) :
                   /\ first[k] <= Len(A)
                   /\ t_output[k] = A[first[k]]
                   /\ k > 1 => first[k - 1] < first[k]

\* A later template line has produced a line whose trimmed text an earlier
\* template line had produced, and the output has it once.
C19_Witness ==
    /\ t_pc = "done"
    /\ \E i, j \in 1..Len(t_tpl) :
           /\ i < j
           /\ \E p \in 1..Len(Contribution(i)) : \E q \in 1..Len(Contribution(j)) :
                  /\ strip(Contribution(i)[p]) # <<>>
                  /\ strip(Contribution(i)[p]) = strip(Contribution(j)[q])
                  /\ Cardinality({ o \in 1..Len(t_output) :
                                     strip(t_output[o]) = strip(Contribution(i)[p]) }) = 1
    /\ Len(t_output) < Len(Assembled)

-----------------------------------------------------------------------------
(* SpecConfigured: one call of TemplateProcessor.expand_netset after a     *)
(* successful fetch, or of netset_expand with its keyword arguments, under *)
(* the settings of config.py.                                              *)

MaxConfiguredLines == 3

\* 10.0.1.0/24, "IP 10.0.0.0/17", 10.0.128.0/18, 10.16.0.0/18,
\* 192.168.1.0/24, 2001:db8::/48, 2001:db9::/32, a CIDR text that does not
\* parse, and a comment.
ConfiguredLines ==
    { <<Cidr4(655361, 24)>>,
      <<Tok("IP"), Tok(" "), Cidr4(655360, 17)>>,
      <<Cidr4(655488, 18)>>,
      <<Cidr4(659456, 18)>>,
      <<Cidr4(12625921, 24)>>,
      <<Cidr6(536939960, 48)>>,
      <<Cidr6(536939961, 32)>>,
      <<Bad6>>,
      Ln(<<"#", "c">>) }

\* compact_target_max: the default of config.py and a value small enough
\* for the netsets above to exceed it.
ConfiguredTargets == {1, 200}

Settings ==
    [ipv4_block_prefix : {ipv4_block_prefix},
     ipv6_block_prefix : {ipv6_block_prefix},
     enable_compaction : BOOLEAN,
     compact_target_max : ConfiguredTargets,
     compact_min_prefix_v4 : {11},
     compact_min_prefix_v6 : {32}]

ConfiguredTexts == SeqsUpTo(ConfiguredLines, MaxConfiguredLines) \ {<<>>}

InitConfigured ==
    /\ f_pc = "call"
    /\ f_args \in [fn : {"expand_netset", "netset_expand"},
                   url : {Ln(<<"n1">>)},
                   text : ConfiguredTexts,
                   suffix : {Ln(<<",", "PROXY">>)},
                   settings : Settings]
    /\ f_ret = <<>>
    /\ IdleDedupe
    /\ IdleCompact
    /\ IdleTemplate

\* TemplateProcessor.expand_netset (lines 54-77) once response.text is
\* there: it passes the two block prefixes of settings and nothing else.
ExpandNetsetCall ==
    /\ f_pc = "call"
    /\ f_args.fn = "expand_netset"
    /\ LET r == expand_netset(f_args.url, f_args.suffix, OkReply(f_args.text))
       IN  f_pc' = pc_after(r) /\ f_ret' = r.value
    /\ UNCHANGED <<f_args, dvars, cvars, tvars>>

\* netset_expand (lines 484-517) with every keyword argument given.
NetsetExpandCall ==
    /\ f_pc = "call"
    /\ f_args.fn = "netset_expand"
    /\ LET r == processor_netset_expand(f_args.text, f_args.suffix, f_args.settings)
       IN  f_pc' = pc_after(r) /\ f_ret' = r.value
    /\ UNCHANGED <<f_args, dvars, cvars, tvars>>

NextConfigured == ExpandNetsetCall \/ NetsetExpandCall

SpecConfigured == InitConfigured /\ [][NextConfigured]_vars

\* C21: when settings.enable_compaction is true, the result of
\* TemplateProcessor.expand_netset equals that of netset_expand called with
\* compaction enabled and the configured target-max and minimum prefixes.
C21_PipelineCompacts ==
    ( /\ f_pc = "returned"
      /\ f_args.fn = "expand_netset"
      /\ f_args.settings.enable_compaction
      /\ ~ processor_netset_expand(f_args.text, f_args.suffix, f_args.settings).raised )
    => f_ret = processor_netset_expand(f_args.text, f_args.suffix, f_args.settings).value

-----------------------------------------------------------------------------
(* Calls of NetworkCompactor.find_minimal_supernet (SpecSupernet): one     *)
(* call on a list of networks of one family and a minimum prefix.          *)

\* How many networks the list holds at most.
MaxSupernetNets == 2

\* 10.0.0.0/24, 10.0.1.0/24, 10.1.0.0/24, 10.0.0.0/23, 10.0.0.0/16 and
\* 192.168.1.0/24.
SupernetNets ==
    { Net(655360, 24), Net(655361, 24), Net(655616, 24),
      Net(655360, 23), Net(655360, 16), Net(12625921, 24) }

\* min_prefix: the default, the values of the tests, and both ends.
SupernetMinPrefixes == {0, 8, 16, 23, 24}

InitSupernet ==
    /\ f_pc = "call"
    /\ f_args \in [fn : {"find_minimal_supernet"},
                   nets : SeqsUpTo(SupernetNets, MaxSupernetNets),
                   min_prefix : SupernetMinPrefixes]
    /\ f_ret = <<>>
    /\ IdleDedupe
    /\ IdleCompact
    /\ IdleTemplate

FindMinimalSupernetCall ==
    /\ f_pc = "call"
    /\ f_args.fn = "find_minimal_supernet"
    /\ f_pc' = "returned"
    /\ f_ret' = find_minimal_supernet(f_args.nets, f_args.min_prefix)
    /\ UNCHANGED <<f_args, dvars, cvars, tvars>>

NextSupernet == FindMinimalSupernetCall

SpecSupernet == InitSupernet /\ [][NextSupernet]_vars

\* The aligned block of the given prefix length around an address.
block_around(addr, prefix_len) ==
    Net(FloorTo(addr, 2 ^ (MaxPrefix - prefix_len)), prefix_len)

contains_all(block, nets) == \A k \in 1..Len(nets) : subnet_of(nets[k], block)

\* C22: when find_minimal_supernet returns a block, no block with a longer
\* prefix (still at least min_prefix) also contains every input network.
C22_ReturnsMinimal ==
    ( /\ f_pc = "returned"
      /\ f_args.fn = "find_minimal_supernet"
      /\ f_ret # None )
    => ~ \E p \in (f_ret.len + 1)..MaxPrefix :
            /\ p >= f_args.min_prefix
            /\ contains_all(block_around(network_address(f_args.nets[1]), p),
                            f_args.nets)

\* C23: a block returned by find_minimal_supernet contains every input
\* network and its prefix length is exactly min_prefix; the result is None
\* exactly when the list is empty or the aligned /min_prefix block around
\* the lowest address does not reach the highest address.
C23_FirstPrefixAccepted ==
    ( f_pc = "returned" /\ f_args.fn = "find_minimal_supernet" )
    => LET nets == f_args.nets
           lo   == SetMin({ network_address(nets[k]) : k \in 1..Len(nets) })
           hi   == SetMax({ broadcast_address(nets[k]) : k \in 1..Len(nets) })
       IN  /\ f_ret # None =>
                /\ contains_all(f_ret, nets)
                /\ f_ret.len = f_args.min_prefix
           /\ f_ret = None <=>
                \/ nets = <<>>
                \/ broadcast_address(block_around(lo, f_args.min_prefix)) < hi

\* Two distinct networks, the higher one first, joined in a block shorter
\* than the shortest block that holds both.
C23_Witness ==
    /\ f_pc = "returned"
    /\ f_args.fn = "find_minimal_supernet"
    /\ Len(f_args.nets) = 2
    /\ network_address(f_args.nets[1]) > broadcast_address(f_args.nets[2])
    /\ f_ret # None
    /\ f_ret.len = f_args.min_prefix
    /\ \E p \in (f_ret.len + 1)..MaxPrefix :
          contains_all(block_around(network_address(f_args.nets[2]), p), f_args.nets)

-----------------------------------------------------------------------------
(* Termination of compact_networks (SpecCompactFair).  The function runs   *)
(* in one thread without awaiting anything, so a step that is enabled is   *)
(* taken: weak fairness of the next-state relation.                        *)

\* How many networks the input of a call holds at most.
MaxFairCidrs == 2

\* The /12 and /13 networks inside 10.0.0.0/11.
FairNets == { n \in CandidateNets : n.len >= 12 /\ subnet_of(n, Net(655360, 11)) }

FairTargets == (-1)..2

FairMinPrefixes == {10, 11, 12}

InitCompactFair ==
    /\ c_pc = "start"
    /\ c_cidrs \in { S \in SUBSET FairNets : Cardinality(S) <= MaxFairCidrs }
    /\ c_target \in FairTargets
    /\ c_minp \in FairMinPrefixes
    /\ c_nets = <<>> /\ c_ti = 0 /\ c_i = 0 /\ c_changed = FALSE
    /\ IdleDedupe
    /\ IdleTemplate
    /\ IdleCall

SpecCompactFair == InitCompactFair /\ [][NextCompact]_vars /\ WF_vars(NextCompact)

\* C24: compact_networks terminates for every input list, target_max
\* (values <= 0 included) and min_prefix; every accepted merge strictly
\* decreases the number of blocks and leaves the scan index where it is; a
\* threshold's loop ends only when a full pass made no merge or the count
\* has reached target_max.
C24_Terminates ==
    /\ <>(c_pc = "done")
    /\ [][ScanMerge => (Len(c_nets') < Len(c_nets) /\ c_i' = c_i)]_vars
    /\ [][(c_pc = "while" /\ c_pc' = "check")
            => (~ c_changed \/ Len(c_nets) <= c_target)]_vars

\* A call with target_max <= 0 that has returned after at least one merge.
C24_Witness ==
    /\ c_pc = "done"
    /\ c_target <= 0
    /\ Len(c_nets) < Len(collapse_addresses(c_cidrs))

-----------------------------------------------------------------------------
(* SpecBlockPrefix: netset_expand with its keyword arguments, the IPv6     *)
(* block prefix being the default or the full address length, on netsets   *)
(* whose IPv6 lines are written with a closing "::".                       *)

\* 2001:db8:0:0:0:0:1::/128, 2001:db9:0:0:0:0:1::/128, 10.0.1.0/24,
\* 10.16.0.0/18 and a comment.
BlockPrefixLines ==
    { <<Cidr6Tail(536939960, 128)>>,
      <<Cidr6Tail(536939961, 128)>>,
      <<Cidr4(655361, 24)>>,
      <<Cidr4(659456, 18)>>,
      Ln(<<"#", "c">>) }

BlockPrefixSettings ==
    [ipv4_block_prefix : {ipv4_block_prefix},
     ipv6_block_prefix : {ipv6_block_prefix, MaxBits6},
     enable_compaction : BOOLEAN,
     compact_target_max : ConfiguredTargets,
     compact_min_prefix_v4 : {11},
     compact_min_prefix_v6 : {32}]

InitBlockPrefix ==
    /\ f_pc = "call"
    /\ f_args \in [fn : {"netset_expand"},
                   url : {Ln(<<"n1">>)},
                   text : SeqsUpTo(BlockPrefixLines, MaxConfiguredLines) \ {<<>>},
                   suffix : {Ln(<<",", "PROXY">>)},
                   settings : BlockPrefixSettings]
    /\ f_ret = <<>>
    /\ IdleDedupe
    /\ IdleCompact
    /\ IdleTemplate

SpecBlockPrefix == InitBlockPrefix /\ [][NetsetExpandCall]_vars

\* The networks of the IPv4 CIDR lines of a netset text.
ipv4_networks_of_text(text) ==
    { Net(ClearHostBits(strip_ip_prefix(strip(text[i]))[1].a,
                        MaxBits - strip_ip_prefix(strip(text[i]))[1].l, UnitBits),
          strip_ip_prefix(strip(text[i]))[1].l) :
        i \in { j \in 1..Len(text) :
                  /\ strip(text[j]) # <<>>
                  /\ ~ startswith_hash(strip(text[j]))
                  /\ Len(strip_ip_prefix(strip(text[j]))) = 1
                  /\ strip_ip_prefix(strip(text[j]))[1].k = "cidr4" } }

\* A result line "IP-CIDR,<block><suffix>" and the family of its block.
is_block_line(line, suffix, kinds) ==
    /\ startswith_ip_cidr(line)
    /\ Len(cidr_of_line(line, suffix)) = 1
    /\ cidr_of_line(line, suffix)[1].k \in kinds
    /\ line = ip_cidr_line(cidr_of_line(line, suffix), suffix)

is_ipv4_line(line, suffix) == is_block_line(line, suffix, {"cidr4"})

is_ipv6_line(line, suffix) == is_block_line(line, suffix, {"cidr6", "cidr6h", "cidr6ts"})

\* C25: a result of netset_expand with compaction enabled covers every IPv4
\* CIDR line of the text by the block of one of its IPv4 lines, holds only
\* lines of the form "IP-CIDR,<block><suffix>", and holds its IPv4 lines
\* before its IPv6 lines.
C25_CompactedNetsetCovers ==
    ( /\ f_pc = "returned"
      /\ f_args.fn = "netset_expand"
      /\ f_args.settings.enable_compaction )
    => LET suffix == f_args.suffix
       IN  /\ \A n \in ipv4_networks_of_text(f_args.text) :
                \E j \in 1..Len(f_ret) :
                    /\ is_ipv4_line(f_ret[j], suffix)
                    /\ subnet_of(n, net_of_cidr(cidr_of_line(f_ret[j], suffix)[1]))
           /\ \A j \in 1..Len(f_ret) :
                is_ipv4_line(f_ret[j], suffix) \/ is_ipv6_line(f_ret[j], suffix)
           /\ \A i, j \in 1..Len(f_ret) :
                (is_ipv6_line(f_ret[i], suffix) /\ is_ipv4_line(f_ret[j], suffix)) => j < i

-----------------------------------------------------------------------------
(* The early return of compact_networks (SpecCompact).                     *)

\* The /13 networks of 10.0.0.0/9: every network of CandidateNets, and
\* every supernet of theirs inside 10.0.0.0/9, is a union of these.
Atoms == { Net(655360 + k * 2 ^ (MaxPrefix - 13), 13) : k \in 0..15 }

\* The addresses, by atoms, that a collection of networks covers.
covered(S) == { a \in Atoms : \E n \in S : subnet_of(a, n) }

\* C26: when the collapsed input has at most target_max blocks,
\* compact_networks returns the collapsed input, and the addresses it covers
\* are exactly those of the input blocks, whatever min_prefix is.
C26_NoOverCoverage ==
    ( c_pc = "done" /\ Len(collapse_addresses(c_cidrs)) <= c_target )
    => /\ c_nets = collapse_addresses(c_cidrs)
       /\ covered(Range(c_nets)) = covered(c_cidrs)

\* An early return whose collapse joined blocks into one shorter than
\* min_prefix, the input leaving part of 10.0.0.0/10 uncovered.
C26_Witness ==
    /\ c_pc = "done"
    /\ c_ti = 0
    /\ Len(collapse_addresses(c_cidrs)) <= c_target
    /\ Len(c_nets) < Cardinality(c_cidrs)
    /\ \E k \in 1..Len(c_nets) : c_nets[k].len < c_minp
    /\ Cardinality(covered(c_cidrs)) < 8

-----------------------------------------------------------------------------
(* The NETSET jobs of one RULE-SET expansion (SpecOneTask).                *)

\* The positions of the body lines that are NETSET markers.
MarkerLines(body) == { i \in 1..Len(body) : netset_match(strip(body[i])) }

\* The URL of the j-th marker line of a body.
marker_url(body, j) == netset_group1(strip(body[KthPosition(MarkerLines(body), j)]))

\* C27: a task whose fetched body holds NETSET markers has one job per
\* marker line, job j expanding the URL of the j-th marker with the task's
\* suffix; when the task returns, its result is the deduplicated list of the
\* rule output followed by the job results in marker order, in whatever
\* order the jobs' fetches completed.
C27_NetsetsInMarkerOrder ==
    \A k \in 1..Len(t_rule) :
        ( t_rule[k].reply.kind = "ok" /\ MarkerLines(t_rule[k].reply.text) # {} )
        => LET body   == t_rule[k].reply.text
               suffix == t_tasks[k].suffix
               jobs   == t_jobs[k]
               n      == Cardinality(MarkerLines(body))
           IN  /\ Len(jobs) = n
               /\ \A j \in 1..n : t_rule[k].urls[j] = marker_url(body, j)
               /\ \A j \in 1..n :
                      jobs[j].st = "done" =>
                          jobs[j].result =
                              expand_netset(marker_url(body, j), suffix, jobs[j].reply).value
               /\ t_rule[k].st = "done" =>
                      t_rule[k].result =
                          dedupe_lines(
                              rule_set_output(t_tasks[k].url, suffix, body)
                              \o Flatten([j \in 1..n |->
                                     expand_netset(marker_url(body, j), suffix,
                                                   jobs[j].reply).value]))

\* A task with two markers has returned; its two jobs ended differently and
\* a line of the first job's result stands before a line of the second's.
C27_Witness ==
    \E k \in 1..Len(t_rule) :
        /\ t_rule[k].st = "done"
        /\ Len(t_jobs[k]) = 2
        /\ t_jobs[k][1].reply = StatusReply("404")
        /\ t_jobs[k][2].reply = OkReply(GoodNetset)
        /\ \E p, q \in 1..Len(t_rule[k].result) :
              /\ p < q
              /\ t_rule[k].result[p] = t_jobs[k][1].result[1]
              /\ t_rule[k].result[q] = t_jobs[k][2].result[1]

-----------------------------------------------------------------------------
(* Liveness of a request (SpecOneTaskFair).  Every fetch that was issued   *)
(* completes and the event loop runs whatever is ready: weak fairness of   *)
(* the next-state relation.  A job inside a loop that never ends keeps the *)
(* event loop, and no step is enabled.                                     *)

\* The templates of the first directive and at most one more line.
FairTemplates ==
    { tpl \in OneTaskTemplates :
        Len(tpl) <= 2 /\ \E i \in 1..Len(tpl) : tpl[i] = Directive1 }

InitFairTask ==
    /\ t_pc = "start"
    /\ t_tpl \in FairTemplates
    /\ t_tasks = <<>>
    /\ t_passthrough = <<>>
    /\ t_rule = <<>>
    /\ t_jobs = <<>>
    /\ t_finished = <<>>
    /\ t_output = <<>>
    /\ IdleDedupe
    /\ IdleCompact
    /\ IdleCall

SpecOneTaskFair == InitFairTask /\ [][Next]_vars /\ WF_vars(Next)

\* C28: when every fetch issued for a template eventually completes,
\* process_template eventually returns its output, whatever the fetched rule
\* lists and netsets hold.
C28_RequestCompletes == <>(t_pc = "done")

-----------------------------------------------------------------------------
(* Coverage by the block of ipv6_cidr_to_blocks (SpecCover).               *)

\* C29: every address of the input network of ipv6_cidr_to_blocks lies
\* inside the returned block, when the input is smaller than a /target
\* block and when it is larger: the block's prefix is not longer than the
\* input's and the input's network address lies in the block.
C29_BlockCoversInput6 ==
    ( ReturnedFrom("ipv6_cidr_to_blocks") /\ f_args.cidr.k = "cidr6" ) =>
        LET width   == MaxBits6 - V6UnitBits
            network == KeepLeadingBits(f_args.cidr.a, f_args.cidr.l, width)
        IN  \E n \in 1..Len(f_ret) :
                /\ f_ret[n].l <= f_args.cidr.l
                /\ KeepLeadingBits(network, f_ret[n].l, width) = f_ret[n].a

-----------------------------------------------------------------------------
(* The block list of compact_networks between steps (SpecCompact).         *)

\* C30: after the initial collapse, after every merge with its re-collapse
\* and on return, no block of the list held by compact_networks contains or
\* equals another block of the list.
C30_PairwiseDisjoint ==
    c_pc # "start" =>
        \A i, j \in 1..Len(c_nets) :
            i # j => ~ subnet_of(c_nets[i], c_nets[j])

\* In the middle of a pass, a list of two blocks or more after a merge.
C30_Witness ==
    /\ c_pc = "scan"
    /\ c_changed
    /\ Len(c_nets) >= 2
    /\ Len(c_nets) < Len(collapse_addresses(c_cidrs))

=============================================================================
